---------------------------- MODULE Spec2Model ----------------------------
(***************************************************************************)
(* A model of the structural fingerprinting core of protein-hash-v2:       *)
(* the petgraph DiGraph the analyzers read, TopologyDetector, the          *)
(* OperationClassifier, the SoulExtractor helpers (components, cyclomatic  *)
(* complexity, eigenvalue signature, coherence) and the comparator         *)
(* (measure_resonance, souls_match, Shuttle::compare_eigenvalues).         *)
(*                                                                         *)
(* Reals (f64) are held exactly: a quantity q is the integer q * Unit.     *)
(* A similarity 1/(1+d) is held as its distance d = sqrt(sq) + lin.        *)
(***************************************************************************)
EXTENDS Integers, Sequences, FiniteSets, TLC

VARIABLES
    node_count,         \* DiGraph: number of nodes, indices 0 .. node_count-1
    edges,              \* DiGraph: the edges <<source, target>> in insertion order
    pc,                 \* position in the extraction pipeline
    overflow_checks,    \* build profile: TRUE = debug (checked usize), FALSE = release
    topology_features,  \* TopologyDetector::analyze result
    topology,           \* SoulExtractor::analyze_topology result
    semantics,          \* SoulExtractor::analyze_semantics result
    solver_eigenvalues, \* what symmetric_eigen returned inside compute_eigenvalues
    eigenvalues,        \* SoulExtractor::compute_eigenvalues result
    coherence,          \* SoulExtractor::measure_coherence result
    soul1, soul2,       \* comparator arguments
    threshold,          \* the threshold the caller of the match wants, <<num, den>>
    resonance,          \* measure_resonance result
    eigen_similarity,   \* Shuttle::compare_eigenvalues result
    matched,            \* souls_match result
    node_types,         \* AstNode::node_type of each node, read by the classifier
    operation_counts,   \* OperationClassifier: the count of each category counted
    classified,         \* history: classification calls made since the last reset
    last_category,      \* what the last classification call returned
    frequency_spectrum, \* what get_frequency_spectrum returned, None once a
                        \* later call was made on the classifier
    operation_spectrum, \* the operation_spectrum of extract_soul_from_graph
    hash_input,         \* generate_phash: the eigenvalues, topology and semantics hashed
    iteration_order,    \* this run's iteration order of semantics.operations (a HashMap)
    phash,              \* generate_phash result of each run
    souls,              \* Shuttle::souls: universal id -> UniversalSoul
    submissions,        \* the registration each caller of the shuttle has asked for
    log,                \* history: the register_soul calls made, in execution order
    fibers,             \* the Fiber heap: priority, child and sibling of each fiber
    work_queue,         \* FiberScheduler::work_queue
    work_in_progress,   \* FiberScheduler::work_in_progress
    current_phase,      \* FiberScheduler::current_phase
    scheduler_pc,       \* position of the scheduler: idle, or inside work_loop
    scheduled,          \* history: the schedule_work calls made, in order
    performed,          \* history: the fibers perform_unit_of_work was called on
    discarded,          \* history: the fibers popped and dropped without being performed
    next_unit,          \* what the last get_next_unit_of_work of a caller returned
    cleanup,            \* EffectState::cleanup
    effect_fn,          \* EffectState::effect_fn
    dependencies,       \* EffectState::dependencies
    trace,              \* history: effects run and cleanup functions invoked, in order
    subject,            \* the Consciousness being healed
    genes,              \* SoulRegistry::genes: phash -> Gene
    total_h_credits_emitted, \* SoulRegistry::total_h_credits_emitted
    report              \* what heal_consciousness returned

graphVars == <<node_count, edges, pc, overflow_checks, topology_features,
               topology, semantics>>
spectralVars == <<solver_eigenvalues, eigenvalues, coherence>>
compareVars == <<soul1, soul2, threshold, resonance, eigen_similarity, matched>>
classifierVars == <<node_types, operation_counts, classified, last_category,
                    frequency_spectrum, operation_spectrum>>
phashVars == <<hash_input, iteration_order, phash>>
shuttleVars == <<souls, submissions, log>>
fiberVars == <<fibers, work_queue, work_in_progress, current_phase, scheduler_pc,
               scheduled, performed, discarded, next_unit>>
effectVars == <<cleanup, effect_fn, dependencies, trace>>
medbedVars == <<subject, genes, total_h_credits_emitted, report>>
\* the state of the components around the extraction core
outerVars == <<phashVars, shuttleVars, fiberVars, effectVars, medbedVars>>
vars == <<graphVars, spectralVars, compareVars, classifierVars, outerVars>>

\* Every result held in a variable is a record with a `kind`.
None == [kind |-> "none"]       \* not computed yet
Panic == [kind |-> "panic"]     \* the call panicked
Ok(v) == [kind |-> "ok", value |-> v]

\* No fingerprint hashed, no shuttle, scheduler, effect or MedBed constructed.
NoPhash == hash_input = None /\ iteration_order = None /\ phash = None
NoShuttle == souls = None /\ submissions = None /\ log = None
NoScheduler ==
    /\ fibers = None /\ work_queue = None /\ work_in_progress = None
    /\ current_phase = None /\ scheduler_pc = None /\ scheduled = None
    /\ performed = None
    /\ discarded = None /\ next_unit = None
NoEffectState ==
    cleanup = None /\ effect_fn = None /\ dependencies = None /\ trace = None
NoMedBed ==
    subject = None /\ genes = None /\ total_h_credits_emitted = None /\ report = None

(***************************************************************************)
(* Bounds of the model.                                                    *)
(***************************************************************************)
MaxNodes == 3
MaxEdges == 3

(***************************************************************************)
(* petgraph::graph::DiGraph as the analyzers see it.                       *)
(***************************************************************************)
Graph == [node_count |-> node_count, edges |-> edges]

node_indices(g) == 0 .. (g.node_count - 1)

edge_count(g) == Len(g.edges)

RECURSIVE OutgoingNewestFirst(_, _, _)
OutgoingNewestFirst(es, a, k) ==
    IF k = 0 THEN <<>>
    ELSE IF es[k][1] = a
         THEN <<es[k][2]>> \o OutgoingNewestFirst(es, a, k - 1)
         ELSE OutgoingNewestFirst(es, a, k - 1)

\* graph.neighbors(a): the targets of a's outgoing edges, most recently added
\* edge first, one entry per parallel edge.
neighbors(g, a) == OutgoingNewestFirst(g.edges, a, Len(g.edges))

RECURSIVE IncomingNewestFirst(_, _, _)
IncomingNewestFirst(es, a, k) ==
    IF k = 0 THEN <<>>
    ELSE IF es[k][2] = a
         THEN <<es[k][1]>> \o IncomingNewestFirst(es, a, k - 1)
         ELSE IncomingNewestFirst(es, a, k - 1)

\* graph.neighbors_directed(a, Incoming)
neighbors_incoming(g, a) == IncomingNewestFirst(g.edges, a, Len(g.edges))

contains_edge(g, a, b) == \E k \in 1 .. Len(g.edges) : g.edges[k] = <<a, b>>

(***************************************************************************)
(* TopologyDetector::detect_cycles: depth-first search with a visited set  *)
(* and a recursion stack.                                                  *)
(***************************************************************************)
RECURSIVE is_cyclic_util(_, _, _, _)
RECURSIVE is_cyclic_neighbors(_, _, _, _)

\* the body of the `for neighbor in graph.neighbors(node)` loop, over the
\* neighbours still to visit
is_cyclic_neighbors(g, nbrs, visited, rec_stack) ==
    IF nbrs = <<>>
    THEN [found |-> FALSE, visited |-> visited, rec_stack |-> rec_stack]
    ELSE LET neighbor == Head(nbrs) IN
         IF neighbor \notin visited
         THEN LET r == is_cyclic_util(g, neighbor, visited, rec_stack) IN
              IF r.found THEN r
              ELSE is_cyclic_neighbors(g, Tail(nbrs), r.visited, r.rec_stack)
         ELSE IF neighbor \in rec_stack
              THEN [found |-> TRUE, visited |-> visited, rec_stack |-> rec_stack]
              ELSE is_cyclic_neighbors(g, Tail(nbrs), visited, rec_stack)

is_cyclic_util(g, node, visited, rec_stack) ==
    LET r == is_cyclic_neighbors(g, neighbors(g, node),
                                 visited \cup {node}, rec_stack \cup {node})
    IN IF r.found THEN r
       ELSE [found |-> FALSE, visited |-> r.visited,
             rec_stack |-> r.rec_stack \ {node}]

RECURSIVE detect_cycles_from(_, _, _, _)
detect_cycles_from(g, node, visited, rec_stack) ==
    IF node >= g.node_count THEN FALSE
    ELSE IF node \notin visited
         THEN LET r == is_cyclic_util(g, node, visited, rec_stack) IN
              IF r.found THEN TRUE
              ELSE detect_cycles_from(g, node + 1, r.visited, r.rec_stack)
         ELSE detect_cycles_from(g, node + 1, visited, rec_stack)

\* A plausible slip: the search is started from the first node only.
detect_cycles_first_root_only(g) ==
    IF g.node_count = 0 THEN FALSE
    ELSE is_cyclic_util(g, 0, {}, {}).found

detect_cycles(g) == detect_cycles_from(g, 0, {}, {})

(***************************************************************************)
(* petgraph::algo::has_path_connecting(g, from, to, None): a Dfs started   *)
(* at `from` yields `from` itself first, then every node reachable from    *)
(* it; the result is whether `to` is among the nodes yielded.              *)
(***************************************************************************)
RECURSIVE DfsReach(_, _, _)
DfsReach(g, frontier, seen) ==
    IF frontier = {} THEN seen
    ELSE LET next == {g.edges[k][2] :
                         k \in {j \in 1 .. Len(g.edges) : g.edges[j][1] \in frontier}}
                     \ seen
         IN DfsReach(g, next, seen \cup next)

has_path_connecting(g, from, to) == to \in DfsReach(g, {from}, {from})

\* TopologyDetector::detect_recursion
detect_recursion(g) ==
    \E node \in node_indices(g) : has_path_connecting(g, node, node)

\* An f64 quotient a / b, held exactly as the pair <<a, b>>, b > 0
Ratio(a, b) == <<a, b>>

\* TopologyDetector::calculate_branching_factor: mean number of outgoing edges
calculate_branching_factor(g) ==
    IF g.node_count = 0 THEN Ratio(0, 1)
    ELSE LET sum[n \in 0 .. g.node_count] ==
                 IF n = 0 THEN 0 ELSE sum[n - 1] + Len(neighbors(g, n - 1))
             total_children == sum[g.node_count]
         IN Ratio(total_children, g.node_count)

RECURSIVE bfs_push_neighbors(_, _, _, _)
\* the `for neighbor in graph.neighbors(node)` loop of bfs_depth
bfs_push_neighbors(nbrs, depth, queue, visited) ==
    IF nbrs = <<>> THEN [queue |-> queue, visited |-> visited]
    ELSE IF Head(nbrs) \notin visited
         THEN bfs_push_neighbors(Tail(nbrs), depth,
                                 Append(queue, <<Head(nbrs), depth + 1>>),
                                 visited \cup {Head(nbrs)})
         ELSE bfs_push_neighbors(Tail(nbrs), depth, queue, visited)

RECURSIVE bfs_loop(_, _, _, _)
\* the `while let Some((node, depth)) = queue.pop_front()` loop of bfs_depth
bfs_loop(g, queue, visited, max_depth) ==
    IF queue = <<>> THEN max_depth
    ELSE LET node == Head(queue)[1]
             depth == Head(queue)[2]
             r == bfs_push_neighbors(neighbors(g, node), depth, Tail(queue), visited)
         IN bfs_loop(g, r.queue, r.visited,
                     IF depth > max_depth THEN depth ELSE max_depth)

\* TopologyDetector::bfs_depth
bfs_depth(g, start) == bfs_loop(g, <<<<start, 0>>>>, {start}, 0)

RECURSIVE max_depth_over_roots(_, _, _)
\* the `for root in roots` loop of calculate_max_depth, roots in index order
max_depth_over_roots(g, node, max_depth) ==
    IF node >= g.node_count THEN max_depth
    ELSE IF Len(neighbors_incoming(g, node)) = 0
         THEN LET depth == bfs_depth(g, node)
              IN max_depth_over_roots(g, node + 1,
                                      IF depth > max_depth THEN depth ELSE max_depth)
         ELSE max_depth_over_roots(g, node + 1, max_depth)

RECURSIVE max_depth_over_all_nodes(_, _, _)
max_depth_over_all_nodes(g, node, max_depth) ==
    IF node >= g.node_count THEN max_depth
    ELSE LET depth == bfs_depth(g, node)
         IN max_depth_over_all_nodes(g, node + 1,
                                     IF depth > max_depth THEN depth ELSE max_depth)

\* A plausible slip: the search is started from every node, not from the
\* roots only.
calculate_max_depth_from_every_node(g) ==
    IF g.node_count = 0 THEN 0
    ELSE max_depth_over_all_nodes(g, 0, 0)

\* TopologyDetector::calculate_max_depth
calculate_max_depth(g) ==
    IF g.node_count = 0 THEN 0
    ELSE max_depth_over_roots(g, 0, 0)

(***************************************************************************)
(* petgraph::algo::tarjan_scc: Tarjan's algorithm.  A node gets an index   *)
(* when the search enters it and is pushed on a stack; its lowlink is the  *)
(* smallest index it can reach through nodes still on the stack; a node    *)
(* whose lowlink is its own index closes a component, popped off the       *)
(* stack.  The components come out in the order they are closed.           *)
(***************************************************************************)
RECURSIVE tarjan_visit(_, _, _)
RECURSIVE tarjan_neighbors(_, _, _, _)

tarjan_on_stack(st, w) == \E k \in 1 .. Len(st.stack) : st.stack[k] = w

tarjan_neighbors(g, v, nbrs, st) ==
    IF nbrs = <<>> THEN st
    ELSE LET w == Head(nbrs) IN
         IF st.index_of[w] = -1
         THEN LET r == tarjan_visit(g, w, st)
                  low == IF r.lowlink[w] < r.lowlink[v]
                         THEN r.lowlink[w] ELSE r.lowlink[v]
              IN tarjan_neighbors(g, v, Tail(nbrs),
                                  [r EXCEPT !.lowlink[v] = low])
         ELSE IF tarjan_on_stack(st, w)
              THEN LET low == IF st.index_of[w] < st.lowlink[v]
                              THEN st.index_of[w] ELSE st.lowlink[v]
                   IN tarjan_neighbors(g, v, Tail(nbrs),
                                       [st EXCEPT !.lowlink[v] = low])
              ELSE tarjan_neighbors(g, v, Tail(nbrs), st)

tarjan_visit(g, v, st) ==
    LET entered == [st EXCEPT !.index_of[v] = st.index,
                              !.lowlink[v] = st.index,
                              !.index = st.index + 1,
                              !.stack = Append(st.stack, v)]
        r == tarjan_neighbors(g, v, neighbors(g, v), entered)
    IN IF r.lowlink[v] = r.index_of[v]
       THEN LET at == CHOOSE k \in 1 .. Len(r.stack) : r.stack[k] = v
            IN [r EXCEPT !.stack = SubSeq(r.stack, 1, at - 1),
                         !.sccs = Append(r.sccs, SubSeq(r.stack, at, Len(r.stack)))]
       ELSE r

RECURSIVE tarjan_from(_, _, _)
\* for n in g.node_identifiers(): visit n if the search has not entered it
tarjan_from(g, node, st) ==
    IF node >= g.node_count THEN st
    ELSE IF st.index_of[node] = -1
         THEN tarjan_from(g, node + 1, tarjan_visit(g, node, st))
         ELSE tarjan_from(g, node + 1, st)

\* tarjan_scc(graph): the components, each the sequence of its nodes
tarjan_scc(g) ==
    tarjan_from(g, 0, [index |-> 0,
                       index_of |-> [n \in node_indices(g) |-> -1],
                       lowlink |-> [n \in node_indices(g) |-> -1],
                       stack |-> <<>>,
                       sccs |-> <<>>]).sccs

\* A plausible slip: every node is reported as a component of its own.
find_singleton_components(g) == [k \in 1 .. g.node_count |-> <<k - 1>>]

\* TopologyDetector::find_strongly_connected_components
find_strongly_connected_components(g) == tarjan_scc(g)

\* TopologyDetector::calculate_loop_complexity: total size of the components
\* with more than one node
calculate_loop_complexity(g) ==
    LET sccs == tarjan_scc(g)
        sum[k \in 0 .. Len(sccs)] ==
            IF k = 0 THEN 0
            ELSE sum[k - 1] + (IF Len(sccs[k]) > 1 THEN Len(sccs[k]) ELSE 0)
    IN sum[Len(sccs)]

\* TopologyDetector::analyze_cycles: (cycle_count, max_cycle_size);
\* max_cycle_size is sccs.iter().map(|scc| scc.len()).max().unwrap_or(0)
analyze_cycles(g) ==
    LET sccs == tarjan_scc(g)
        cycle_count == Cardinality({k \in 1 .. Len(sccs) : Len(sccs[k]) > 1})
        max_cycle_size ==
            IF sccs = <<>> THEN 0
            ELSE CHOOSE m \in {Len(sccs[k]) : k \in 1 .. Len(sccs)} :
                     \A k \in 1 .. Len(sccs) : Len(sccs[k]) <= m
    IN <<cycle_count, max_cycle_size>>

\* TopologyDetector::calculate_recursion_depth: the one-node components
\* whose node has a self-loop
calculate_recursion_depth(g) ==
    LET sccs == tarjan_scc(g)
    IN Cardinality({k \in 1 .. Len(sccs) :
                       Len(sccs[k]) = 1 /\ contains_edge(g, sccs[k][1], sccs[k][1])})

\* TopologyDetector::calculate_connectivity: e / (n * (n - 1)), unclamped
calculate_connectivity(g) ==
    IF g.node_count < 2 THEN Ratio(0, 1)
    ELSE LET n == g.node_count
             e == edge_count(g)
             max_edges == n * (n - 1)
         IN IF max_edges > 0 THEN Ratio(e, max_edges) ELSE Ratio(0, 1)

\* TopologyDetector::analyze (topological_signature, a formatted string of
\* the component sizes, branching factor and nesting depth, is not carried)
analyze(g) ==
    LET has_cycles == detect_cycles(g)
        has_recursion == detect_recursion(g)
        branching_factor == calculate_branching_factor(g)
        nesting_depth == calculate_max_depth(g)
        loop_complexity == calculate_loop_complexity(g)
        is_dag == ~has_cycles
        sccs == find_strongly_connected_components(g)
        strongly_connected_components == Len(sccs)
        cycles == analyze_cycles(g)
        recursion_depth == calculate_recursion_depth(g)
        connectivity_score == calculate_connectivity(g)
    IN [has_cycles |-> has_cycles,
        has_recursion |-> has_recursion,
        branching_factor |-> branching_factor,
        nesting_depth |-> nesting_depth,
        loop_complexity |-> loop_complexity,
        is_dag |-> is_dag,
        strongly_connected_components |-> strongly_connected_components,
        cycle_count |-> cycles[1],
        max_cycle_size |-> cycles[2],
        recursion_depth |-> recursion_depth,
        connectivity_score |-> connectivity_score]

(***************************************************************************)
(* usize arithmetic.  A debug build checks it (an overflow panics); a      *)
(* release build wraps modulo 2^64.  The modulus is held at 2^30 here:     *)
(* every count of the model is far below it, and a wrapped difference      *)
(* a - b with a < b is Modulus - (b - a) at either width.                  *)
(***************************************************************************)
UsizeModulus == 2 ^ 30

usize_overflows(x) == x < 0 \/ x >= UsizeModulus

usize_wrap(x) == x % UsizeModulus

(***************************************************************************)
(* SoulExtractor helpers.                                                  *)
(***************************************************************************)
RECURSIVE dfs(_, _, _)
RECURSIVE dfs_neighbors(_, _, _)

dfs_neighbors(g, nbrs, visited) ==
    IF nbrs = <<>> THEN visited
    ELSE IF Head(nbrs) \notin visited
         THEN dfs_neighbors(g, Tail(nbrs), dfs(g, Head(nbrs), visited))
         ELSE dfs_neighbors(g, Tail(nbrs), visited)

\* SoulExtractor::dfs: follows graph.neighbors(node), the outgoing edges
dfs(g, node, visited) ==
    dfs_neighbors(g, neighbors(g, node), visited \cup {node})

RECURSIVE count_components_from(_, _, _, _)
count_components_from(g, node, visited, components) ==
    IF node >= g.node_count THEN components
    ELSE IF node \notin visited
         THEN count_components_from(g, node + 1, dfs(g, node, visited),
                                    components + 1)
         ELSE count_components_from(g, node + 1, visited, components)

\* SoulExtractor::count_components
count_components(g) ==
    IF g.node_count = 0 THEN 0
    ELSE count_components_from(g, 0, {}, 0)

\* SoulExtractor::calculate_betti_numbers: loops = e - n + components
calculate_betti_numbers(g, checked) ==
    LET components == count_components(g)
        difference == edge_count(g) - g.node_count
        loops == usize_wrap(difference) + components
    IN IF checked /\ (usize_overflows(difference) \/ usize_overflows(loops))
       THEN Panic
       ELSE Ok(<<components, usize_wrap(loops)>>)

SetMax(S) == CHOOSE x \in S : \A y \in S : y <= x

\* SoulExtractor::calculate_diameter: the largest out-degree
calculate_diameter(g) ==
    IF g.node_count = 0 THEN 0
    ELSE SetMax({Len(neighbors(g, n)) : n \in node_indices(g)})

\* for i in 0..neighbors.len() { for j in (i+1)..neighbors.len() { .. } }
neighbor_pairs_with_edge(g, nbrs) ==
    Cardinality({p \in (1 .. Len(nbrs)) \X (1 .. Len(nbrs)) :
                    p[1] < p[2] /\ contains_edge(g, nbrs[p[1]], nbrs[p[2]])})

RECURSIVE count_triangles_from(_, _)
count_triangles_from(g, node) ==
    IF node >= g.node_count THEN 0
    ELSE neighbor_pairs_with_edge(g, neighbors(g, node))
         + count_triangles_from(g, node + 1)

\* SoulExtractor::count_triangles
count_triangles(g) == count_triangles_from(g, 0) \div 3

\* SoulExtractor::calculate_clustering_coefficient
calculate_clustering_coefficient(g) ==
    IF g.node_count < 3 THEN Ratio(0, 1)
    ELSE LET triangles == count_triangles(g)
             possible_triangles ==
                 (g.node_count * (g.node_count - 1) * (g.node_count - 2)) \div 6
         IN IF possible_triangles > 0
            THEN Ratio(triangles, possible_triangles)
            ELSE Ratio(0, 1)

\* SoulExtractor::calculate_modularity: (clustering + components / nodes).min(1.0)
calculate_modularity(g) ==
    LET clustering == calculate_clustering_coefficient(g)
        components == count_components(g)
        nodes == g.node_count
    IN IF nodes > 0
       THEN LET sum == Ratio(clustering[1] * nodes + components * clustering[2],
                             clustering[2] * nodes)
            IN IF sum[1] >= sum[2] THEN Ratio(1, 1) ELSE sum
       ELSE Ratio(0, 1)

\* SoulExtractor::calculate_cyclomatic_complexity: e - n + 2 * p
calculate_cyclomatic_complexity(g, checked) ==
    LET e == edge_count(g)
        n == g.node_count
        p == count_components(g)
        difference == e - n
        total == usize_wrap(difference) + 2 * p
    IN IF checked /\ (usize_overflows(difference) \/ usize_overflows(total))
       THEN Panic
       ELSE Ok(usize_wrap(total))

\* SoulExtractor::calculate_cognitive_complexity
calculate_cognitive_complexity(g, checked) ==
    LET cyclomatic == calculate_cyclomatic_complexity(g, checked) IN
    IF cyclomatic = Panic THEN Panic
    ELSE IF checked /\ usize_overflows(cyclomatic.value * 2) THEN Panic
    ELSE Ok(usize_wrap(cyclomatic.value * 2))

\* SoulExtractor::calculate_dependency_depth
calculate_dependency_depth(g) == calculate_diameter(g)

\* SoulExtractor::analyze_topology
analyze_topology(g, checked) ==
    LET betti_numbers == calculate_betti_numbers(g, checked) IN
    IF betti_numbers = Panic THEN Panic
    ELSE Ok([betti_numbers |-> betti_numbers.value,
             euler_char |-> g.node_count - edge_count(g),
             diameter |-> calculate_diameter(g),
             clustering |-> calculate_clustering_coefficient(g),
             modularity |-> calculate_modularity(g)])

\* SoulExtractor::analyze_semantics
analyze_semantics(g, checked) ==
    LET cyclomatic == calculate_cyclomatic_complexity(g, checked)
        cognitive == calculate_cognitive_complexity(g, checked)
    IN IF cyclomatic = Panic \/ cognitive = Panic THEN Panic
       ELSE Ok([cyclomatic |-> cyclomatic.value,
                cognitive |-> cognitive.value,
                depth |-> calculate_dependency_depth(g)])

(***************************************************************************)
(* OperationClassifier.  A category is held by its name; a frequency is    *)
(* the quotient <<numerator, denominator>> in Hz.                          *)
(***************************************************************************)
RESONANCE_BASE == 432

\* enum OperationCategory, in declaration order
CategoryList ==
    <<"Arithmetic", "Logical", "Bitwise", "Comparison", "Assignment",
      "ControlFlow", "Loop", "Conditional",
      "DataStructure", "StringOp", "ArrayOp",
      "Async", "FunctionCall", "Lambda",
      "TypeOperation", "MetaProgramming", "Reflection",
      "Recursion", "SelfReference", "Emergence", "Consciousness">>

Categories == {CategoryList[k] : k \in 1 .. Len(CategoryList)}

\* OperationCategory::frequency; the two irrational ones (432 * 1.618..,
\* 432 * PI) rounded to 1/1000 Hz
frequency(category) ==
    CASE category = "Arithmetic" -> Ratio(RESONANCE_BASE, 1)
      [] category = "Logical" -> Ratio(384, 1)
      [] category = "Bitwise" -> Ratio(486, 1)
      [] category = "Comparison" -> Ratio(408, 1)
      [] category = "Assignment" -> Ratio(RESONANCE_BASE, 1)
      [] category = "ControlFlow" -> Ratio(512, 1)
      [] category = "Loop" -> Ratio(360, 1)
      [] category = "Conditional" -> Ratio(456, 1)
      [] category = "DataStructure" -> Ratio(396, 1)
      [] category = "StringOp" -> Ratio(528, 1)
      [] category = "ArrayOp" -> Ratio(444, 1)
      [] category = "Async" -> Ratio(639, 1)
      [] category = "FunctionCall" -> Ratio(417, 1)
      [] category = "Lambda" -> Ratio(741, 1)
      [] category = "TypeOperation" -> Ratio(852, 1)
      [] category = "MetaProgramming" -> Ratio(963, 1)
      [] category = "Reflection" -> Ratio(174, 1)
      [] category = "Recursion" -> Ratio(285, 1)
      [] category = "SelfReference" -> Ratio(369, 1)
      [] category = "Emergence" -> Ratio(698991, 1000)
      [] category = "Consciousness" -> Ratio(1357168, 1000)

\* OperationClassifier::new: frequency_map.get(token), None for a token
\* that has no entry
frequency_map_get(token) ==
    CASE token \in {"+", "-", "*", "/", "%", "**"} -> Ok("Arithmetic")
      [] token \in {"&&", "||", "!"} -> Ok("Logical")
      [] token \in {"&", "|", "^", "~", "<<", ">>"} -> Ok("Bitwise")
      [] token \in {"==", "!=", "<", ">", "<=", ">="} -> Ok("Comparison")
      [] token \in {"=", "+=", "-=", "*=", "/="} -> Ok("Assignment")
      [] token \in {"if", "else", "match"} -> Ok("Conditional")
      [] token \in {"for", "while", "loop"} -> Ok("Loop")
      [] token \in {"break", "continue", "return"} -> Ok("ControlFlow")
      [] token \in {"async", "await", "spawn"} -> Ok("Async")
      [] token \in {"fn"} -> Ok("FunctionCall")
      [] token \in {"closure", "move"} -> Ok("Lambda")
      [] token \in {"type", "impl", "trait", "as"} -> Ok("TypeOperation")
      [] token \in {"macro", "derive", "attribute"} -> Ok("MetaProgramming")
      [] OTHER -> None

\* operation_counts: HashMap::new()
empty_counts == [category \in {} |-> 0]

\* *counts.entry(category).or_insert(0) += 1
increment(counts, category) ==
    [c \in DOMAIN counts \cup {category} |->
        IF c = category
        THEN (IF c \in DOMAIN counts THEN counts[c] ELSE 0) + 1
        ELSE counts[c]]

\* OperationClassifier::new (the classifier part of SoulExtractor::new)
NewClassifier ==
    /\ operation_counts = empty_counts
    /\ classified = 0
    /\ last_category = None
    /\ frequency_spectrum = None
    /\ operation_spectrum = None

\* OperationClassifier::classify: the category returned and the counts after
classify(counts, token) ==
    LET found == frequency_map_get(token)
        category == IF found = None THEN "Assignment" ELSE found.value
    IN [category |-> category,
        operation_counts |-> increment(counts, category)]

\* OperationClassifier::classify_rust_node: returns the category, counts nothing
classify_rust_node(node_type) ==
    CASE node_type \in {"BinOp", "Binary"} -> "Arithmetic"
      [] node_type \in {"UnOp", "Unary"} -> "Arithmetic"
      [] node_type \in {"If", "Match"} -> "Conditional"
      [] node_type \in {"While", "For", "Loop"} -> "Loop"
      [] node_type \in {"Call", "MethodCall"} -> "FunctionCall"
      [] node_type \in {"Closure"} -> "Lambda"
      [] node_type \in {"Async", "Await"} -> "Async"
      [] node_type \in {"Type", "TypeAlias"} -> "TypeOperation"
      [] node_type \in {"Macro"} -> "MetaProgramming"
      [] node_type \in {"Return", "Break", "Continue"} -> "ControlFlow"
      [] node_type \in {"Let", "Const"} -> "Assignment"
      [] node_type \in {"Array", "Vec"} -> "ArrayOp"
      [] node_type \in {"String", "Str"} -> "StringOp"
      [] node_type \in {"Struct", "Enum"} -> "DataStructure"
      [] OTHER -> "Assignment"

\* self.operation_counts.values().sum()
total_count(counts) ==
    LET sum[k \in 0 .. Len(CategoryList)] ==
            IF k = 0 THEN 0
            ELSE IF CategoryList[k] \in DOMAIN counts
                 THEN sum[k - 1] + counts[CategoryList[k]]
                 ELSE sum[k - 1]
    IN sum[Len(CategoryList)]

\* OperationClassifier::get_frequency_spectrum: per entry,
\* cat.frequency() * (count / total)
get_frequency_spectrum(counts) ==
    LET total == total_count(counts) IN
    IF total = 0 THEN [category \in {} |-> Ratio(0, 1)]
    ELSE [category \in DOMAIN counts |->
             Ratio(frequency(category)[1] * counts[category],
                   frequency(category)[2] * total)]

(***************************************************************************)
(* The extraction pipeline (SoulExtractor::extract_soul_from_graph, up to  *)
(* analyze_semantics) over a graph built with add_node / add_edge.         *)
(***************************************************************************)
InitGraph ==
    /\ node_count = 0
    /\ edges = <<>>
    /\ pc = "build"
    /\ overflow_checks \in BOOLEAN
    /\ topology_features = None
    /\ topology = None
    /\ semantics = None

\* DiGraph::add_node
AddNode ==
    /\ pc = "build"
    /\ node_count < MaxNodes
    /\ node_count' = node_count + 1
    /\ UNCHANGED <<edges, pc, overflow_checks, topology_features, topology,
                   semantics, spectralVars, compareVars, classifierVars,
                   outerVars>>

\* DiGraph::add_edge
AddEdge ==
    /\ pc = "build"
    /\ Len(edges) < MaxEdges
    /\ \E a \in 0 .. (node_count - 1), b \in 0 .. (node_count - 1) :
          edges' = Append(edges, <<a, b>>)
    /\ UNCHANGED <<node_count, pc, overflow_checks, topology_features, topology,
                   semantics, spectralVars, compareVars, classifierVars,
                   outerVars>>

\* extract_soul_from_graph: self.topology_detector.analyze(&ast_graph)
Analyze ==
    /\ pc = "build"
    /\ topology_features' = Ok(analyze(Graph))
    /\ pc' = "analyze_topology"
    /\ UNCHANGED <<node_count, edges, overflow_checks, topology, semantics,
                   spectralVars, compareVars, classifierVars,
                   outerVars>>

\* extract_soul_from_graph, extract_soul_js_simple:
\* self.analyze_topology(&ast_graph)
AnalyzeTopology ==
    /\ pc = "analyze_topology"
    /\ topology' = analyze_topology(Graph, overflow_checks)
    /\ pc' = IF topology' = Panic THEN "panicked" ELSE "analyze_semantics"
    /\ UNCHANGED <<node_count, edges, overflow_checks, topology_features,
                   semantics, spectralVars, compareVars, classifierVars,
                   outerVars>>

\* extract_soul_from_graph, extract_soul_js_simple:
\* self.analyze_semantics(&ast_graph)
AnalyzeSemantics ==
    /\ pc = "analyze_semantics"
    /\ semantics' = analyze_semantics(Graph, overflow_checks)
    /\ pc' = IF semantics' = Panic THEN "panicked" ELSE "compute_eigenvalues"
    /\ UNCHANGED <<node_count, edges, overflow_checks, topology_features,
                   topology, spectralVars, compareVars, classifierVars,
                   outerVars>>

Init ==
    /\ InitGraph
    /\ solver_eigenvalues = None /\ eigenvalues = None /\ coherence = None
    /\ soul1 = None /\ soul2 = None /\ threshold = None
    /\ resonance = None /\ eigen_similarity = None /\ matched = None
    /\ node_types = <<>> /\ NewClassifier
    /\ NoPhash /\ NoShuttle /\ NoScheduler /\ NoEffectState /\ NoMedBed

Next ==
    \/ AddNode
    \/ AddEdge
    \/ Analyze
    \/ AnalyzeTopology
    \/ AnalyzeSemantics

Spec == Init /\ [][Next]_vars

(***************************************************************************)
(* Graph-theoretic reference notions the properties are stated with.       *)
(***************************************************************************)
EdgeSet(g) == {g.edges[k] : k \in 1 .. Len(g.edges)}

RECURSIVE Warshall(_, _, _)
Warshall(R, k, n) ==
    IF k >= n THEN R
    ELSE Warshall(R \cup {p \in (0 .. n - 1) \X (0 .. n - 1) :
                             <<p[1], k>> \in R /\ <<k, p[2]>> \in R},
                  k + 1, n)

\* <<a, b>> is in PathRelation(g) iff a non-empty directed path leads from a to b
PathRelation(g) == Warshall(EdgeSet(g), 0, g.node_count)

HasDirectedCycle(g) ==
    LET R == PathRelation(g) IN \E v \in node_indices(g) : <<v, v>> \in R

\* reachability ignoring edge direction (reflexive)
UndirectedRelation(g) ==
    Warshall(EdgeSet(g) \cup {<<e[2], e[1]>> : e \in EdgeSet(g)}
                        \cup {<<v, v>> : v \in node_indices(g)},
             0, g.node_count)

WeakComponents(g) ==
    LET R == UndirectedRelation(g) IN
    Cardinality({{w \in node_indices(g) : <<v, w>> \in R} : v \in node_indices(g)})

NatMax(a, b) == IF a >= b THEN a ELSE b

\* the classes of the mutual-reachability partition of the nodes
StrongComponents(g) ==
    LET R == PathRelation(g) IN
    {{v} \cup {w \in node_indices(g) : <<v, w>> \in R /\ <<w, v>> \in R} :
        v \in node_indices(g)}

\* a class is cyclic when it has two nodes or more, or its node has a self-loop
CyclicComponents(g) ==
    {c \in StrongComponents(g) :
        Cardinality(c) >= 2 \/ \E v \in c : <<v, v>> \in EdgeSet(g)}

LargestCyclicComponent(g) ==
    IF CyclicComponents(g) = {} THEN 0
    ELSE SetMax({Cardinality(c) : c \in CyclicComponents(g)})

RECURSIVE LayersUntilClosed(_, _, _)
\* near: the nodes a directed path of at most k edges leads to from the root;
\* the result is the first k at which one more edge reaches nothing new
LayersUntilClosed(g, near, k) ==
    LET next == near \cup {e[2] : e \in {f \in EdgeSet(g) : f[1] \in near}}
    IN IF next = near THEN k ELSE LayersUntilClosed(g, next, k + 1)

\* the largest shortest-path distance from root to a node reachable from it
Eccentricity(g, root) == LayersUntilClosed(g, {root}, 0)

Roots(g) == {v \in node_indices(g) : \A e \in EdgeSet(g) : e[2] # v}

RatioLeq(r, q) == r[1] * q[2] <= q[1] * r[2]
RatioEq(r, q) == r[1] * q[2] = q[1] * r[2]

(***************************************************************************)
(* Properties of the topology analyzer and of the semantic analyzer.       *)
(***************************************************************************)
\* C1: analyze reports has_cycles exactly when the graph contains a directed
\* cycle (a self-loop included), and is_dag is the negation of has_cycles.
C1_CycleClassification ==
    topology_features # None =>
        /\ topology_features.value.has_cycles = HasDirectedCycle(Graph)
        /\ topology_features.value.is_dag = ~topology_features.value.has_cycles

\* C1 witness: a three-node graph whose only cycle avoids node 0 was analyzed
\* and classified as cyclic.
C1_Witness ==
    /\ topology_features # None
    /\ node_count = 3
    /\ <<0, 0>> \notin PathRelation(Graph)
    /\ <<1, 2>> \in EdgeSet(Graph) /\ <<2, 1>> \in EdgeSet(Graph)
    /\ topology_features.value.has_cycles
    /\ ~topology_features.value.is_dag

\* C8: the cyclomatic complexity is max(0, E - N + 2P), P the number of
\* connected components, and computing it (and the Betti numbers, which
\* start from the same E - N) never faults, also when E < N.
C8_CyclomaticNeverFaults ==
    /\ topology # Panic
    /\ semantics # Panic
    /\ semantics.kind = "ok" =>
          semantics.value.cyclomatic =
              NatMax(0, edge_count(Graph) - node_count + 2 * WeakComponents(Graph))

\* C9: the component count the semantic analyzer uses is the number of
\* weakly connected components of the graph.
C9_WeaklyConnectedComponents ==
    /\ topology.kind = "ok" =>
          topology.value.betti_numbers[1] = WeakComponents(Graph)
    /\ semantics.kind = "ok" =>
          semantics.value.cyclomatic =
              edge_count(Graph) - node_count + 2 * WeakComponents(Graph)

\* C10: the recursion flag is true iff some node has a non-empty directed
\* path back to itself, so it equals has_cycles.
C10_RecursionIffCycle ==
    topology_features # None =>
        /\ topology_features.value.has_recursion = HasDirectedCycle(Graph)
        /\ topology_features.value.has_recursion = topology_features.value.has_cycles

\* C11: max_cycle_size is the size of the largest cyclic strongly connected
\* component (two nodes or more, or one node with a self-loop); one-node
\* components without a self-loop do not count, so it is 0 for an acyclic graph.
C11_MaxCycleSizeCountsCyclicOnly ==
    topology_features # None =>
        /\ topology_features.value.max_cycle_size = LargestCyclicComponent(Graph)
        /\ ~HasDirectedCycle(Graph) => topology_features.value.max_cycle_size = 0

\* C12: scc_count is the number of classes of the mutual-reachability
\* partition: 1 when all nodes lie on one directed cycle, the node count when
\* the graph is acyclic.
C12_SccCountIsPartitionSize ==
    (pc = "analyze_topology" /\ topology_features # None) =>
        LET scc_count == topology_features.value.strongly_connected_components
            R == PathRelation(Graph)
        IN /\ scc_count = Cardinality(StrongComponents(Graph))
           /\ (node_count > 0 /\ \A v, w \in node_indices(Graph) : <<v, w>> \in R)
                 => scc_count = 1
           /\ ~HasDirectedCycle(Graph) => scc_count = node_count

\* C12 witness: the three-node cycle 0 -> 1 -> 2 -> 0 was analyzed and has
\* one component.
C12_Witness ==
    /\ topology_features # None
    /\ node_count = 3
    /\ edges = <<<<0, 1>>, <<1, 2>>, <<2, 0>>>>
    /\ topology_features.value.strongly_connected_components = 1

\* C13: connectivity_score lies in [0, 1] for every graph, self-loops and
\* parallel edges included; it is edge_count / (n*(n-1)) for n >= 2 and 0
\* for n < 2.
C13_ConnectivityInUnitInterval ==
    topology_features # None =>
        LET score == topology_features.value.connectivity_score IN
        /\ RatioLeq(Ratio(0, 1), score) /\ RatioLeq(score, Ratio(1, 1))
        /\ node_count >= 2 =>
              RatioEq(score, Ratio(edge_count(Graph), node_count * (node_count - 1)))
        /\ node_count < 2 => RatioEq(score, Ratio(0, 1))

\* C19: the max nesting depth is the maximum, over the roots (in-degree 0),
\* of the largest shortest-path distance from the root to a node reachable
\* from it; it is 0 when there is no root or no node.
C19_NestingDepthIsMaxRootEccentricity ==
    (pc = "analyze_topology" /\ topology_features # None) =>
        topology_features.value.nesting_depth =
            (IF Roots(Graph) = {} THEN 0
             ELSE SetMax({Eccentricity(Graph, r) : r \in Roots(Graph)}))

\* C19 witness: a root reaches node 2 both directly and through node 1; the
\* depth reported is the shortest distance, 1.
C19_Witness ==
    /\ topology_features # None
    /\ node_count = 3
    /\ {<<0, 1>>, <<1, 2>>, <<0, 2>>} = EdgeSet(Graph)
    /\ topology_features.value.nesting_depth = 1

\* C18: the dependency_depth of the semantic profile equals the topology
\* analyzer's max nesting depth, for every graph.
C18_DependencyDepthIsNestingDepth ==
    (semantics.kind = "ok" /\ topology_features # None) =>
        semantics.value.depth = topology_features.value.nesting_depth

(***************************************************************************)
(* The comparator.  A soul is the part of Soul the comparator reads: the   *)
(* eigenvalue signature (any length: Soul is a public struct, and          *)
(* convert_ts_to_soul copies eigen_top as it is) and the topology.         *)
(* f64 quantities are integers in units of 1/Unit.                         *)
(***************************************************************************)
EulerDivisor == 100
MatchNum == 19
MatchDen == 20
\* 1/Unit resolves both euler_char/100 and the distance 1/19 at which the
\* similarity is exactly 19/20 = 0.95
Unit == MatchNum * EulerDivisor

MaxSigLen == 2
EigenDomain == {0, 100}
EulerDomain == {0, 1}
ClusteringDomain == {0, 81}
ModularityDomain == {0, 81}
Thresholds == {<<1, 2>>, <<MatchNum, MatchDen>>}

SeqsUpTo(S, n) == UNION {[1 .. k -> S] : k \in 0 .. n}

Souls ==
    [eigenvalues : SeqsUpTo(EigenDomain, MaxSigLen),
     euler_char : EulerDomain,
     clustering : ClusteringDomain,
     modularity : ModularityDomain]

Abs(x) == IF x < 0 THEN -x ELSE x
Min(a, b) == IF a <= b THEN a ELSE b

\* sum over .zip(): the pairs up to the shorter length
RECURSIVE ZipSquaredDifferences(_, _, _)
ZipSquaredDifferences(ev1, ev2, k) ==
    IF k = 0 THEN 0
    ELSE (ev1[k] - ev2[k]) * (ev1[k] - ev2[k])
         + ZipSquaredDifferences(ev1, ev2, k - 1)

\* The similarity 1 / (1 + distance), distance = (sqrt(sq) + lin) / Unit
Similarity(sq, lin) == [kind |-> "similarity", sq |-> sq, lin |-> lin]
\* the f64 0.0
Zero == [kind |-> "zero"]

\* A plausible slip: clustering of one soul compared with modularity of the other.
measure_resonance_mixed_fields(s1, s2) ==
    Similarity(ZipSquaredDifferences(s1.eigenvalues, s2.eigenvalues,
                   Min(Len(s1.eigenvalues), Len(s2.eigenvalues))),
               (Abs(s1.euler_char - s2.euler_char) * Unit) \div EulerDivisor
                 + Abs(s1.clustering - s2.modularity)
                 + Abs(s1.modularity - s2.modularity))

\* A plausible slip: the topology differences are taken without .abs().
measure_resonance_signed(s1, s2) ==
    Similarity(ZipSquaredDifferences(s1.eigenvalues, s2.eigenvalues,
                   Min(Len(s1.eigenvalues), Len(s2.eigenvalues))),
               ((s1.euler_char - s2.euler_char) * Unit) \div EulerDivisor
                 + (s1.clustering - s2.clustering)
                 + (s1.modularity - s2.modularity))

\* measure_resonance
measure_resonance(s1, s2) ==
    LET eigen_distance_sq ==
            ZipSquaredDifferences(s1.eigenvalues, s2.eigenvalues,
                Min(Len(s1.eigenvalues), Len(s2.eigenvalues)))
        topo_similarity ==
            (Abs(s1.euler_char - s2.euler_char) * Unit) \div EulerDivisor
              + Abs(s1.clustering - s2.clustering)
              + Abs(s1.modularity - s2.modularity)
    IN Similarity(eigen_distance_sq, topo_similarity)

\* similarity > num / den, exactly:
\*   1/(1 + (sqrt(sq)+lin)/Unit) > num/den  iff  num*sqrt(sq) < (den-num)*Unit - num*lin
f64_greater(sim, num, den) ==
    IF sim = Zero THEN 0 > num
    ELSE LET rest == (den - num) * Unit - num * sim.lin IN
         rest > 0 /\ num * num * sim.sq < rest * rest

\* similarity >= num / den, exactly
f64_greater_or_equal(sim, num, den) ==
    IF sim = Zero THEN 0 >= num
    ELSE LET rest == (den - num) * Unit - num * sim.lin IN
         rest >= 0 /\ num * num * sim.sq <= rest * rest

\* A plausible slip: >= in place of >.
souls_match_or_equal(s1, s2) ==
    f64_greater_or_equal(measure_resonance(s1, s2), MatchNum, MatchDen)

\* souls_match: measure_resonance(soul1, soul2) > 0.95
souls_match(s1, s2) == f64_greater(measure_resonance(s1, s2), MatchNum, MatchDen)

\* Shuttle::compare_eigenvalues
compare_eigenvalues(ev1, ev2) ==
    IF Len(ev1) # Len(ev2) THEN Zero
    ELSE Similarity(ZipSquaredDifferences(ev1, ev2, Len(ev1)), 0)

InitCompare ==
    /\ soul1 \in Souls
    /\ soul2 \in Souls
    /\ threshold \in Thresholds
    /\ resonance = None
    /\ eigen_similarity = None
    /\ matched = None
    /\ node_count = 0 /\ edges = <<>> /\ pc = "build" /\ overflow_checks = FALSE
    /\ topology_features = None /\ topology = None /\ semantics = None
    /\ solver_eigenvalues = None /\ eigenvalues = None /\ coherence = None
    /\ node_types = <<>> /\ NewClassifier
    /\ NoPhash /\ NoShuttle /\ NoScheduler /\ NoEffectState /\ NoMedBed

\* a caller compares the two souls, in both orders
MeasureResonance ==
    /\ resonance = None
    /\ resonance' = [kind |-> "ok",
                     forward |-> measure_resonance(soul1, soul2),
                     backward |-> measure_resonance(soul2, soul1)]
    /\ UNCHANGED <<soul1, soul2, threshold, eigen_similarity, matched,
                   graphVars, spectralVars, classifierVars,
                   outerVars>>

\* a caller asks whether the two souls match
SoulsMatch ==
    /\ matched = None
    /\ matched' = Ok(souls_match(soul1, soul2))
    /\ UNCHANGED <<soul1, soul2, threshold, resonance, eigen_similarity,
                   graphVars, spectralVars, classifierVars,
                   outerVars>>

\* the shuttle compares the two eigenvalue signatures
CompareEigenvalues ==
    /\ eigen_similarity = None
    /\ eigen_similarity' = compare_eigenvalues(soul1.eigenvalues, soul2.eigenvalues)
    /\ UNCHANGED <<soul1, soul2, threshold, resonance, matched,
                   graphVars, spectralVars, classifierVars,
                   outerVars>>

NextCompare ==
    \/ MeasureResonance
    \/ SoulsMatch
    \/ CompareEigenvalues

SpecCompare == InitCompare /\ [][NextCompare]_vars

(***************************************************************************)
(* Properties of the comparator.                                           *)
(***************************************************************************)
\* the similarity is exactly 1: its distance is 0
IsOne(sim) == sim.kind = "similarity" /\ sim.sq = 0 /\ sim.lin = 0

\* the similarity is a number in (0, 1]: its distance is finite and >= 0
InUnitInterval(sim) == sim.kind = "similarity" /\ sim.sq >= 0 /\ sim.lin >= 0

\* similarity > num/den, as a bound on the distance:
\* num * (sqrt(sq) + lin) < (den - num) * Unit
SimilarityExceeds(sim, num, den) ==
    LET slack == (den - num) * Unit - num * sim.lin IN
    slack > 0 /\ num * num * sim.sq < slack * slack

\* similarity = num/den
SimilarityEquals(sim, num, den) ==
    LET slack == (den - num) * Unit - num * sim.lin IN
    slack >= 0 /\ num * num * sim.sq = slack * slack

\* C2: measure_resonance of a soul with itself (or a clone) is exactly 1, and
\* souls_match of it with itself is true.
C2_Reflexive ==
    soul1 = soul2 =>
        /\ resonance.kind = "ok" => IsOne(resonance.forward)
        /\ matched.kind = "ok" => matched.value = TRUE

\* C2 witness: a soul with two distinct eigenvalues and clustering different
\* from modularity was compared with its clone.
C2_Witness ==
    /\ soul1 = soul2
    /\ Len(soul1.eigenvalues) >= 2
    /\ soul1.eigenvalues[1] # soul1.eigenvalues[2]
    /\ soul1.clustering # soul1.modularity
    /\ resonance.kind = "ok" /\ IsOne(resonance.forward)
    /\ matched.kind = "ok" /\ matched.value

\* C3: comparing two signatures of different lengths is an error surfaced to
\* the caller: neither comparator returns a similarity value for them.
C3_LengthMismatchIsError ==
    Len(soul1.eigenvalues) # Len(soul2.eigenvalues) =>
        /\ resonance.kind \in {"none", "error"}
        /\ eigen_similarity.kind \in {"none", "error"}

\* C4: the similarity lies in (0, 1] and is 1 only for identical signatures
\* (same length, same entries).
C4_OneOnlyForIdenticalSignatures ==
    resonance.kind = "ok" =>
        /\ InUnitInterval(resonance.forward)
        /\ IsOne(resonance.forward) => soul1.eigenvalues = soul2.eigenvalues

\* C5: measure_resonance(A, B) = measure_resonance(B, A).
C5_Symmetric ==
    resonance.kind = "ok" => resonance.forward = resonance.backward

\* C5 witness: two souls that differ in signature length, in an eigenvalue
\* and in every topology field were compared in both orders.
C5_Witness ==
    /\ resonance.kind = "ok"
    /\ Len(soul1.eigenvalues) < Len(soul2.eigenvalues)
    /\ Len(soul1.eigenvalues) >= 1
    /\ soul1.eigenvalues[1] # soul2.eigenvalues[1]
    /\ soul1.euler_char < soul2.euler_char
    /\ soul1.clustering > soul2.clustering
    /\ soul1.modularity < soul2.modularity
    /\ resonance.forward = resonance.backward

CONSCIOUSNESS_LAYERS == 7
\* PHI = 1.618033988749895, in units of 1/Unit
PHI == (1618 * Unit) \div 1000

MaxSpectralNodes == 8
EigenOutcomes == {-2 * Unit, 0, Unit}

RECURSIVE fill_adjacency(_, _, _)
\* for edge in graph.edge_references(): laplacian[(i,j)] = laplacian[(j,i)] = -1
fill_adjacency(m, es, k) ==
    IF k > Len(es) THEN m
    ELSE LET i == es[k][1]
             j == es[k][2]
         IN fill_adjacency([m EXCEPT ![<<i, j>>] = -1, ![<<j, i>>] = -1], es, k + 1)

\* the Laplacian compute_eigenvalues builds: graph.edges(i) are i's outgoing edges
laplacian(g) ==
    LET zeros == [p \in node_indices(g) \X node_indices(g) |-> 0]
        adjacency == fill_adjacency(zeros, g.edges, 1)
    IN [p \in node_indices(g) \X node_indices(g) |->
            IF p[1] = p[2] THEN Len(neighbors(g, p[1])) ELSE adjacency[p]]

\* laplacian.symmetric_eigen().eigenvalues: the possible results
symmetric_eigen(m, n) == [1 .. n -> EigenOutcomes]

RECURSIVE insert_descending(_, _)
insert_descending(sorted, x) ==
    IF sorted = <<>> THEN <<x>>
    ELSE IF Head(sorted) >= x
         THEN <<Head(sorted)>> \o insert_descending(Tail(sorted), x)
         ELSE <<x>> \o sorted

RECURSIVE sort_descending(_)
\* eigenvalues.sort_by(|a, b| b.partial_cmp(a).unwrap()): stable, descending
sort_descending(seq) ==
    IF seq = <<>> THEN <<>>
    ELSE insert_descending(sort_descending(SubSeq(seq, 1, Len(seq) - 1)),
                           seq[Len(seq)])

truncate(seq, len) == IF Len(seq) > len THEN SubSeq(seq, 1, len) ELSE seq

RECURSIVE pad(_, _, _)
\* while eigenvalues.len() < len { eigenvalues.push(value) }
pad(seq, len, value) ==
    IF Len(seq) < len THEN pad(Append(seq, value), len, value) ELSE seq

\* A plausible slip: the truncation to the seven layers is left out.
compute_eigenvalues_untruncated(g, solved) ==
    IF g.node_count > 0
    THEN pad(sort_descending([k \in 1 .. Len(solved) |-> Abs(solved[k])]),
             CONSCIOUSNESS_LAYERS, PHI)
    ELSE [k \in 1 .. CONSCIOUSNESS_LAYERS |-> PHI]

\* SoulExtractor::compute_eigenvalues, `solved` being what the solver returned
compute_eigenvalues(g, solved) ==
    IF g.node_count > 0
    THEN pad(truncate(sort_descending([k \in 1 .. Len(solved) |-> Abs(solved[k])]),
                      CONSCIOUSNESS_LAYERS),
             CONSCIOUSNESS_LAYERS, PHI)
    ELSE [k \in 1 .. CONSCIOUSNESS_LAYERS |-> PHI]

\* the graphs the signature is computed for: no edges, a path, a directed ring
PathEdges(n) == [k \in 1 .. NatMax(0, n - 1) |-> <<k - 1, k>>]
RingEdges(n) == IF n = 0 THEN <<>> ELSE Append(PathEdges(n), <<n - 1, 0>>)

\* f64 values that are not finite
NaN == [kind |-> "nan"]
Infinity == [kind |-> "inf"]
\* a finite f64 held as the product of two quotients
Product(q, r) == [kind |-> "finite", connectivity |-> q, damping |-> r]

\* a as f64 / b as f64 for a, b >= 0: 0/0 is NaN, a/0 is +inf
f64_div(a, b) ==
    IF b = 0 THEN (IF a = 0 THEN NaN ELSE Infinity)
    ELSE Product(Ratio(a, b), Ratio(1, 1))

\* x * r for a finite r > 0: NaN stays NaN, +inf stays +inf
f64_mul(x, r) ==
    IF x.kind = "finite" THEN Product(x.connectivity, r) ELSE x

\* whether the finite product x is >= 1, decided without forming the products:
\* q1 * r1 >= q2 * r2  iff  floor(q1 * r1 / q2) >= r2
product_at_least_one(x) ==
    (x.connectivity[1] * x.damping[1]) \div x.connectivity[2] >= x.damping[2]

\* x.min(1.0).max(0.0): f64::min returns the other argument when one is NaN
clamp_unit(x) ==
    IF x.kind = "nan" \/ x.kind = "inf" THEN Product(Ratio(1, 1), Ratio(1, 1))
    ELSE IF product_at_least_one(x) THEN Product(Ratio(1, 1), Ratio(1, 1))
    ELSE IF x.connectivity[1] < 0 THEN Product(Ratio(0, 1), Ratio(1, 1))
    ELSE x

\* eigenvalues.iter().map(|e| (e - PHI).powi(2)).sum(), in units of 1/Unit^2
sum_squared_deviation(ev) ==
    LET sum[k \in 0 .. Len(ev)] ==
            IF k = 0 THEN 0 ELSE sum[k - 1] + (ev[k] - PHI) * (ev[k] - PHI)
    IN sum[Len(ev)]

\* A plausible slip: the guard on the empty graph is left out.
measure_coherence_unguarded(g, ev) ==
    LET variance == Ratio(sum_squared_deviation(ev), Len(ev) * Unit * Unit)
        connectivity == f64_div(edge_count(g), g.node_count * (g.node_count - 1))
        inverse == Ratio(variance[2], variance[2] + variance[1])
    IN clamp_unit(f64_mul(connectivity, inverse))

\* SoulExtractor::measure_coherence; ev has CONSCIOUSNESS_LAYERS entries
measure_coherence(g, ev) ==
    LET variance == Ratio(sum_squared_deviation(ev), Len(ev) * Unit * Unit)
        connectivity ==
            IF g.node_count > 0
            THEN f64_div(edge_count(g), g.node_count * (g.node_count - 1))
            ELSE Product(Ratio(0, 1), Ratio(1, 1))
        \* 1.0 / (1.0 + variance)
        inverse == Ratio(variance[2], variance[2] + variance[1])
    IN clamp_unit(f64_mul(connectivity, inverse))

\* the TopologyFeatures literal of extract_soul_js_simple
default_topology_features ==
    [has_cycles |-> FALSE,
     has_recursion |-> FALSE,
     branching_factor |-> Ratio(0, 1),
     nesting_depth |-> 0,
     loop_complexity |-> 0,
     is_dag |-> TRUE,
     strongly_connected_components |-> 0,
     cycle_count |-> 0,
     max_cycle_size |-> 0,
     recursion_depth |-> 0,
     connectivity_score |-> Ratio(0, 1)]

\* SoulExtractor::extract_soul_js_simple on a graph: analyze_topology,
\* analyze_semantics, compute_eigenvalues, measure_coherence, then the
\* default topology features.
InitSpectral ==
    /\ node_count \in 0 .. MaxSpectralNodes
    /\ edges \in {<<>>, PathEdges(node_count), RingEdges(node_count)}
    /\ solver_eigenvalues = None
    /\ eigenvalues = None
    /\ coherence = None
    /\ pc = "analyze_topology" /\ overflow_checks \in BOOLEAN
    /\ topology_features = None /\ topology = None /\ semantics = None
    /\ soul1 = None /\ soul2 = None /\ threshold = None
    /\ resonance = None /\ eigen_similarity = None /\ matched = None
    /\ node_types = <<>> /\ NewClassifier
    /\ NoPhash /\ NoShuttle /\ NoScheduler /\ NoEffectState /\ NoMedBed

\* extract_soul_js_simple: self.compute_eigenvalues(&ast_graph)
ComputeEigenvalues ==
    /\ pc = "compute_eigenvalues"
    /\ \E solved \in symmetric_eigen(laplacian(Graph), node_count) :
          /\ solver_eigenvalues' = Ok(solved)
          /\ eigenvalues' = Ok(compute_eigenvalues(Graph, solved))
    /\ pc' = "measure_coherence"
    /\ UNCHANGED <<node_count, edges, overflow_checks, topology_features,
                   topology, semantics, coherence, compareVars, classifierVars,
                   outerVars>>

\* extract_soul_js_simple: self.measure_coherence(&ast_graph, &eigenvalues)
MeasureCoherence ==
    /\ pc = "measure_coherence"
    /\ coherence' = Ok(measure_coherence(Graph, eigenvalues.value))
    /\ pc' = "default_features"
    /\ UNCHANGED <<node_count, edges, overflow_checks, topology_features,
                   topology, semantics, solver_eigenvalues, eigenvalues,
                   compareVars, classifierVars,
                   outerVars>>

\* extract_soul_js_simple: let topology_features = TopologyFeatures { .. }
DefaultTopologyFeatures ==
    /\ pc = "default_features"
    /\ topology_features' = Ok(default_topology_features)
    /\ pc' = "done"
    /\ UNCHANGED <<node_count, edges, overflow_checks, topology, semantics,
                   spectralVars, compareVars, classifierVars,
                   outerVars>>

NextSpectral ==
    \/ AnalyzeTopology
    \/ AnalyzeSemantics
    \/ ComputeEigenvalues
    \/ MeasureCoherence
    \/ DefaultTopologyFeatures

SpecSpectral == InitSpectral /\ [][NextSpectral]_vars

\* how often v occurs among the first n entries of seq
Occurrences(seq, n, v) == Cardinality({k \in 1 .. n : seq[k] = v})

\* C7: the signature always has exactly 7 entries; when N < 7 the first N
\* are the eigenvalue magnitudes and the rest are PHI; the empty graph gives
\* seven PHI.
C7_SignatureLength ==
    eigenvalues.kind = "ok" =>
        LET sig == eigenvalues.value
            solved == solver_eigenvalues.value
            magnitudes == [k \in 1 .. Len(solved) |-> Abs(solved[k])]
        IN /\ Len(sig) = 7
           /\ node_count < 7 =>
                 /\ \A k \in (node_count + 1) .. 7 : sig[k] = PHI
                 /\ \A v \in {magnitudes[k] : k \in 1 .. node_count} :
                       Occurrences(sig, node_count, v)
                           = Occurrences(magnitudes, node_count, v)
                 /\ \A k \in 1 .. node_count :
                       sig[k] \in {magnitudes[j] : j \in 1 .. node_count}
           /\ node_count = 0 => \A k \in 1 .. 7 : sig[k] = PHI

\* C7 witness: a three-node graph whose solver result has a negative and a
\* positive eigenvalue got a signature of three magnitudes and four PHI.
C7_Witness ==
    /\ eigenvalues.kind = "ok"
    /\ node_count = 3
    /\ edges # <<>>
    /\ solver_eigenvalues.value = <<0, -2 * Unit, Unit>>
    /\ eigenvalues.value = <<2 * Unit, Unit, 0, PHI, PHI, PHI, PHI>>

\* whether the clamped coherence c is exactly 0, and whether it is within [0, 1]
CoherenceIsZero(c) == c.connectivity[1] = 0
CoherenceInUnitInterval(c) ==
    /\ c.connectivity[1] >= 0 /\ c.connectivity[2] > 0
    /\ c.damping[1] > 0 /\ c.damping[2] > 0
    /\ (c.connectivity[1] * c.damping[1]) \div c.connectivity[2] <= c.damping[2]
    /\ (product_at_least_one(c) =>
           c.connectivity[1] * c.damping[1] = c.connectivity[2] * c.damping[2])

\* mean((eigenvalue_i - PHI)^2) as the quotient <<sum of squares, count * Unit^2>>
Variance(sig) ==
    LET squares == [k \in 1 .. Len(sig) |-> (sig[k] - PHI) * (sig[k] - PHI)]
        total[k \in 0 .. Len(sig)] == IF k = 0 THEN 0 ELSE total[k - 1] + squares[k]
    IN <<total[Len(sig)], Len(sig) * Unit * Unit>>

\* C14: coherence is clamp(connectivity * 1/(1+variance), 0, 1), with
\* connectivity E/(N*(N-1)) taken as 0 when N < 2; it is always in [0, 1],
\* and it is 0 for every graph of fewer than two nodes, with or without a
\* self-loop.
C14_CoherenceZeroBelowTwoNodes ==
    coherence.kind = "ok" =>
        LET c == coherence.value
            v == Variance(eigenvalues.value)
        IN /\ CoherenceInUnitInterval(c)
           /\ node_count < 2 => CoherenceIsZero(c)
           /\ (node_count >= 2 /\ edge_count(Graph) < node_count * (node_count - 1)) =>
                 /\ RatioEq(c.connectivity,
                            Ratio(edge_count(Graph), node_count * (node_count - 1)))
                 /\ c.damping = <<v[2], v[2] + v[1]>>

\* the graph has no self-loop and no two edges joining the same pair of nodes
SimpleGraph(g) ==
    \A k \in 1 .. Len(g.edges) :
        /\ g.edges[k][1] # g.edges[k][2]
        /\ \A j \in 1 .. Len(g.edges) :
              j # k => {g.edges[j][1], g.edges[j][2]} # {g.edges[k][1], g.edges[k][2]}

\* the number of edges incident to v, incoming and outgoing
UndirectedDegree(g, v) ==
    Cardinality({k \in 1 .. Len(g.edges) : g.edges[k][1] = v \/ g.edges[k][2] = v})

RowSum(m, i, n) ==
    LET sum[j \in 0 .. n] == IF j = 0 THEN 0 ELSE sum[j - 1] + m[<<i, j - 1>>]
    IN sum[n]

\* C15: for a graph without self-loops or parallel edges the Laplacian of the
\* spectral step has L[i][j] = L[j][i] = -1 exactly when an edge joins i and
\* j in either direction, L[i][i] = the undirected degree of i, and every
\* row sums to 0.
C15_SymmetrizedLaplacian ==
    (eigenvalues.kind = "ok" /\ SimpleGraph(Graph)) =>
        LET L == laplacian(Graph) IN
        \A i \in node_indices(Graph) :
            /\ \A j \in node_indices(Graph) \ {i} :
                  /\ L[<<i, j>>] = L[<<j, i>>]
                  /\ L[<<i, j>>] = (IF <<i, j>> \in EdgeSet(Graph)
                                       \/ <<j, i>> \in EdgeSet(Graph)
                                    THEN -1 ELSE 0)
            /\ L[<<i, i>>] = UndirectedDegree(Graph, i)
            /\ RowSum(L, i, node_count) = 0

MaxClassifications == 3
Tokens == {"+", "-", "if", "async", "macro", "identifier"}
NodeTypes == {"BinOp", "If", "Macro", "Block"}

InitClassifier ==
    /\ node_count \in 0 .. MaxNodes
    /\ node_types \in [1 .. node_count -> NodeTypes]
    /\ NewClassifier
    /\ edges = <<>> /\ pc = "build" /\ overflow_checks = FALSE
    /\ topology_features = None /\ topology = None /\ semantics = None
    /\ solver_eigenvalues = None /\ eigenvalues = None /\ coherence = None
    /\ soul1 = None /\ soul2 = None /\ threshold = None
    /\ resonance = None /\ eigen_similarity = None /\ matched = None
    /\ NoPhash /\ NoShuttle /\ NoScheduler /\ NoEffectState /\ NoMedBed

\* OperationClassifier::classify
Classify ==
    /\ classified < MaxClassifications
    /\ \E token \in Tokens :
          LET r == classify(operation_counts, token) IN
          /\ operation_counts' = r.operation_counts
          /\ last_category' = Ok(r.category)
    /\ classified' = classified + 1
    /\ frequency_spectrum' = None
    /\ UNCHANGED <<node_types, operation_spectrum, graphVars, spectralVars,
                   compareVars,
                   outerVars>>

\* OperationClassifier::classify_rust_node
ClassifyRustNode ==
    /\ classified < MaxClassifications
    /\ \E node_type \in NodeTypes :
          last_category' = Ok(classify_rust_node(node_type))
    /\ classified' = classified + 1
    /\ frequency_spectrum' = None
    /\ UNCHANGED <<node_types, operation_counts, operation_spectrum, graphVars,
                   spectralVars, compareVars,
                   outerVars>>

\* OperationClassifier::reset
Reset ==
    /\ operation_counts' = empty_counts
    /\ classified' = 0
    /\ last_category' = None
    /\ frequency_spectrum' = None
    /\ UNCHANGED <<node_types, operation_spectrum, graphVars, spectralVars,
                   compareVars,
                   outerVars>>

\* OperationClassifier::get_frequency_spectrum
GetFrequencySpectrum ==
    /\ frequency_spectrum = None
    /\ frequency_spectrum' = Ok(get_frequency_spectrum(operation_counts))
    /\ UNCHANGED <<node_types, operation_counts, classified, last_category,
                   operation_spectrum, graphVars, spectralVars, compareVars,
                   outerVars>>

\* extract_soul_from_graph: reset, classify_rust_node for every node weight,
\* then operation_spectrum = get_frequency_spectrum()
ClassifyOperations ==
    /\ operation_spectrum = None
    /\ operation_counts' = empty_counts
    /\ classified' = Len(node_types)
    /\ last_category' = IF node_types = <<>> THEN None
                        ELSE Ok(classify_rust_node(node_types[Len(node_types)]))
    /\ frequency_spectrum' = Ok(get_frequency_spectrum(empty_counts))
    /\ operation_spectrum' = Ok(get_frequency_spectrum(empty_counts))
    /\ UNCHANGED <<node_types, graphVars, spectralVars, compareVars,
                   outerVars>>

NextClassifier ==
    \/ Classify
    \/ ClassifyRustNode
    \/ Reset
    \/ GetFrequencySpectrum
    \/ ClassifyOperations

SpecClassifier == InitClassifier /\ [][NextClassifier]_vars

\* the sum of the values of a spectrum, as a quotient
SpectrumSum(spectrum) ==
    LET present == [k \in 1 .. Len(CategoryList) |-> CategoryList[k] \in DOMAIN spectrum]
        sum[k \in 0 .. Len(CategoryList)] ==
            IF k = 0 THEN Ratio(0, 1)
            ELSE IF present[k]
                 THEN LET v == spectrum[CategoryList[k]]
                      IN Ratio(sum[k - 1][1] * v[2] + v[1] * sum[k - 1][2],
                               sum[k - 1][2] * v[2])
                 ELSE sum[k - 1]
    IN sum[Len(CategoryList)]

\* C16: after at least one classification call, frequency_spectrum is a
\* distribution: every present category's value is count / total, lies in
\* [0, 1], and the values sum to 1.
C16_SpectrumIsDistribution ==
    (frequency_spectrum.kind = "ok" /\ classified >= 1) =>
        LET spectrum == frequency_spectrum.value IN
        /\ \A category \in DOMAIN spectrum :
              /\ RatioLeq(Ratio(0, 1), spectrum[category])
              /\ RatioLeq(spectrum[category], Ratio(1, 1))
              /\ RatioEq(spectrum[category],
                         Ratio(operation_counts[category], total_count(operation_counts)))
        /\ RatioEq(SpectrumSum(spectrum), Ratio(1, 1))

\* C17: the per-category counts sum to the number of classification calls
\* (classify or classify_rust_node) made since the last reset, so after the
\* pipeline has classified every node of a non-empty graph the operation
\* spectrum is not empty.
C17_CountsSumToClassifications ==
    /\ total_count(operation_counts) = classified
    /\ (operation_spectrum.kind = "ok" /\ node_count > 0) =>
          DOMAIN operation_spectrum.value # {}

(***************************************************************************)
(* Every component outside the extraction core starts from this state of   *)
(* the core: no graph built, nothing analysed, a new classifier.           *)
(***************************************************************************)
NoExtraction ==
    /\ node_count = 0 /\ edges = <<>> /\ pc = "build" /\ overflow_checks = FALSE
    /\ topology_features = None /\ topology = None /\ semantics = None
    /\ solver_eigenvalues = None /\ eigenvalues = None /\ coherence = None
    /\ soul1 = None /\ soul2 = None /\ threshold = None
    /\ resonance = None /\ eigen_similarity = None /\ matched = None
    /\ node_types = <<>> /\ NewClassifier

(***************************************************************************)
(* SoulExtractor::generate_phash.  Two runs of the extraction hash the     *)
(* same eigenvalues, topology and semantics; what differs between two runs *)
(* is the iteration order of semantics.operations, a std HashMap whose     *)
(* hasher is seeded per process.  SHA-256 is held as an ideal hash: the    *)
(* digest is the message it was computed from, so two digests are equal    *)
(* exactly when the hashed byte strings are (hex::encode is one-to-one).   *)
(***************************************************************************)
\* {integer}::to_le_bytes: two's complement, least significant byte first
RECURSIVE to_le_bytes(_, _)
to_le_bytes(n, width) ==
    IF width = 0 THEN <<>>
    ELSE <<n % 256>> \o to_le_bytes(n \div 256, width - 1)

\* the position of the highest set bit of a >= 1
RECURSIVE floor_log2(_)
floor_log2(a) == IF a < 2 THEN 0 ELSE 1 + floor_log2(a \div 2)

\* f64::to_le_bytes of x / Unit, for x / Unit a multiple of 1/2 below 16:
\* IEEE-754 binary64 is sign (1 bit), exponent + 1023 (11 bits), fraction
\* (52 bits); such a value has at most 4 fraction bits, all in byte 6.
f64_to_le_bytes(x) ==
    LET sign == IF x < 0 THEN 1 ELSE 0
        halves == (2 * Abs(x)) \div Unit
        top == floor_log2(halves)
        exponent == (top - 1) + 1023
        fraction == (halves - 2 ^ top) * 2 ^ (4 - top)
    IN IF halves = 0 THEN [k \in 1 .. 8 |-> 0]
       ELSE [k \in 1 .. 8 |->
                IF k = 8 THEN sign * 128 + exponent \div 16
                ELSE IF k = 7 THEN (exponent % 16) * 16 + fraction
                ELSE 0]

\* for e in eigenvalues { hasher.update(e.to_le_bytes()) }
RECURSIVE update_each(_, _)
update_each(message, values) ==
    IF values = <<>> THEN message
    ELSE update_each(message \o f64_to_le_bytes(Head(values)), Tail(values))

\* Sha256 .. finalize, hex::encode
Sha256(message) == [kind |-> "digest", of |-> message]

\* the bytes of the entries of a HashMap<OperationType, f64>, as iterated
RECURSIVE update_each_entry(_, _)
update_each_entry(message, entries) ==
    IF entries = <<>> THEN message
    ELSE update_each_entry(
             message \o <<Head(entries)[1]>> \o f64_to_le_bytes(Head(entries)[2]),
             Tail(entries))

\* A plausible slip: the operation histogram is hashed too, in the order
\* the HashMap iterates.
generate_phash_with_operations(ev, topo, sem) ==
    Sha256(update_each_entry(
               update_each(<<>>, ev)
                 \o to_le_bytes(topo.euler_char, 4)
                 \o to_le_bytes(topo.diameter, 8)
                 \o f64_to_le_bytes(topo.clustering)
                 \o to_le_bytes(sem.cyclomatic, 8)
                 \o to_le_bytes(sem.cognitive, 8),
               sem.operations))

\* generate_phash: euler_char is an i32, diameter, cyclomatic and cognitive
\* are usize (8 bytes), clustering and the eigenvalues are f64
generate_phash(ev, topo, sem) ==
    Sha256(update_each(<<>>, ev)
             \o to_le_bytes(topo.euler_char, 4)
             \o to_le_bytes(topo.diameter, 8)
             \o f64_to_le_bytes(topo.clustering)
             \o to_le_bytes(sem.cyclomatic, 8)
             \o to_le_bytes(sem.cognitive, 8))

\* The inputs of the hash: signatures of up to MaxSigLen eigenvalues, and a
\* histogram of two operation types.
Runs == 1 .. 2
HashedEigenvalues == {-2 * Unit, 0, Unit}
OperationTypes == {1, 2}
OperationHistogram == [op \in OperationTypes |-> Unit \div 2]
IterationOrders ==
    {order \in [1 .. Cardinality(OperationTypes) -> OperationTypes] :
        \A i, j \in DOMAIN order : i # j => order[i] # order[j]}
HashInputs ==
    [eigenvalues : SeqsUpTo(HashedEigenvalues, MaxSigLen),
     topology : [euler_char : {-1, 1}, diameter : {0, 1},
                 clustering : {0, Unit \div 2}],
     cyclomatic : {1, 2}]

\* the SemanticFingerprint one run holds: analyze_semantics gives
\* cognitive = 2 * cyclomatic; operations is read in the run's order
semantics_of(input, order) ==
    [operations |-> [k \in DOMAIN order |-> <<order[k], OperationHistogram[order[k]]>>],
     cyclomatic |-> input.cyclomatic,
     cognitive |-> input.cyclomatic * 2]

InitPhash ==
    /\ hash_input \in HashInputs
    /\ iteration_order \in [Runs -> IterationOrders]
    /\ phash = [run \in Runs |-> None]
    /\ NoExtraction
    /\ NoShuttle /\ NoScheduler /\ NoEffectState /\ NoMedBed

\* one run of the extraction reaches generate_phash
GeneratePhash(run) ==
    /\ phash[run] = None
    /\ phash' = [phash EXCEPT ![run] =
                    generate_phash(hash_input.eigenvalues, hash_input.topology,
                        semantics_of(hash_input, iteration_order[run]))]
    /\ UNCHANGED <<hash_input, iteration_order, graphVars, spectralVars,
                   compareVars, classifierVars, shuttleVars, fiberVars,
                   effectVars, medbedVars>>

NextPhash == \E run \in Runs : GeneratePhash(run)

SpecPhash == InitPhash /\ [][NextPhash]_vars

\* C21: two runs of the extraction on the same graph produce the same
\* content hash: the hash is a function of the eigenvalues, Euler
\* characteristic, diameter, clustering, cyclomatic and cognitive complexity
\* serialized in that order, whatever order the runs' hash maps iterate in.
C21_PhashDeterministic ==
    \A r1, r2 \in Runs :
        (phash[r1] # None /\ phash[r2] # None) =>
            /\ phash[r1] = phash[r2]
            /\ phash[r1].of =
                   update_each(<<>>, hash_input.eigenvalues)
                     \o to_le_bytes(hash_input.topology.euler_char, 4)
                     \o to_le_bytes(hash_input.topology.diameter, 8)
                     \o f64_to_le_bytes(hash_input.topology.clustering)
                     \o to_le_bytes(hash_input.cyclomatic, 8)
                     \o to_le_bytes(2 * hash_input.cyclomatic, 8)

\* both runs hashed a non-empty signature, their hash maps iterating in
\* different orders
C21_Witness ==
    /\ \A run \in Runs : phash[run] # None
    /\ iteration_order[1] # iteration_order[2]
    /\ hash_input.eigenvalues # <<>>
    /\ hash_input.topology.euler_char < 0

(***************************************************************************)
(* The Shuttle (shuttle.rs): the registry of universal souls.  A Soul is   *)
(* the part the registry reads: phash (a sequence of ASCII characters),    *)
(* eigenvalues, topology, coherence and the two complexity numbers; f64    *)
(* fields are in units of 1/Unit.  register_soul takes &mut self: a call   *)
(* runs from its lookup to its insert with no other call in between, so    *)
(* concurrent callers are served one whole call at a time, in any order.   *)
(* The resonance_matrix, essence and timestamps of UniversalSoul are not   *)
(* read by any registration and are not carried.                           *)
(***************************************************************************)
\* Shuttle::new: resonance_threshold 0.85, in twentieths
resonance_threshold == 17

\* a / b <= c / d for a, c >= 0 and b, d > 0, by continued fractions, so
\* that no product leaves the machine integers
RECURSIVE FracLeq(_, _, _, _)
FracLeq(a, b, c, d) ==
    IF a \div b # c \div d THEN a \div b < c \div d
    ELSE IF a % b = 0 THEN TRUE
    ELSE IF c % d = 0 THEN FALSE
    ELSE FracLeq(d, c % d, b, a % b)

\* compare_topology: three times the similarity, (euler_sim + cluster_sim
\* + module_sim), in units of 1/Unit
compare_topology(s1, s2) ==
    (Unit - (Abs(s1.euler_char - s2.euler_char) * Unit) \div EulerDivisor)
      + (Unit - Abs(s1.clustering - s2.clustering))
      + (Unit - Abs(s1.modularity - s2.modularity))

\* souls_resonate: eigen * 0.5 + topo * 0.3 + (0.2 if the coherences are
\* closer than 0.1) >= resonance_threshold.  In twentieths:
\*   10 / (1 + dist) >= rest, rest = 17 - 6 * topo - 4 * [close]
\* which is  dist * rest <= 10 - rest  when rest > 0.
souls_resonate(s1, s2) ==
    LET eigen == compare_eigenvalues(s1.eigenvalues, s2.eigenvalues)
        consciousness_similarity == 10 * Abs(s1.coherence - s2.coherence) < Unit
        rest == resonance_threshold * Unit - 2 * compare_topology(s1, s2)
                  - (IF consciousness_similarity THEN 4 * Unit ELSE 0)
        room == 10 * Unit - rest
    IN IF rest <= 0 THEN TRUE
       ELSE IF eigen = Zero \/ room < 0 THEN FALSE
       ELSE IF room = 0 THEN eigen.sq = 0
       ELSE FracLeq(eigen.sq, room * room, Unit * Unit, rest * rest)

\* A plausible slip: the lookup matches the content hash, not the resonance.
find_same_phash(registry, soul) ==
    LET same == {id \in DOMAIN registry :
                    \E language \in DOMAIN registry[id].manifestations :
                        registry[id].manifestations[language].soul.phash = soul.phash}
    IN IF same = {} THEN {None} ELSE {Ok(id) : id \in same}

\* find_resonant_soul: the id of the first universal soul, in the iteration
\* order of the HashMap, that has a resonating manifestation.  The order
\* is not specified and differs between runs: every universal soul with a
\* resonating manifestation can be the one returned.
find_resonant_soul(registry, soul) ==
    LET resonant == {id \in DOMAIN registry :
                        \E language \in DOMAIN registry[id].manifestations :
                            souls_resonate(soul,
                                registry[id].manifestations[language].soul)}
    IN IF resonant = {} THEN {None} ELSE {Ok(id) : id \in resonant}

\* generate_universal_id: "universal:" and the first 16 bytes of the phash
generate_universal_id(soul) ==
    <<"universal:">> \o (IF Len(soul.phash) >= 16 THEN SubSeq(soul.phash, 1, 16)
                         ELSE soul.phash)

\* HashMap::insert: a present key gets the new value
map_insert(map, key, value) ==
    [k \in DOMAIN map \cup {key} |-> IF k = key THEN value ELSE map[k]]

EmptyMap == [k \in {} |-> None]

\* `f as usize` of an f64: truncated towards zero, negative values to 0
f64_as_usize(x) == IF x <= 0 THEN 0 ELSE x \div Unit

\* convert_ts_to_soul
convert_ts_to_soul(ts_soul) ==
    [phash |-> ts_soul.phash,
     eigenvalues |-> ts_soul.eigen_top,
     euler_char |-> ts_soul.nodes - ts_soul.edges,
     clustering |-> Unit \div 2,
     modularity |-> ts_soul.purity,
     coherence |-> IF ts_soul.quantum_coherence = None THEN Unit \div 2
                   ELSE ts_soul.quantum_coherence.value,
     cyclomatic |-> f64_as_usize(ts_soul.complexity),
     cognitive |-> f64_as_usize(ts_soul.complexity * 2)]

\* register_soul, given what find_resonant_soul returned: the registry
\* after the call and the id returned
register_soul(registry, language, soul, source_hash, found) ==
    LET manifestation ==
            [language |-> language, soul |-> soul, source_hash |-> source_hash]
    IN IF found # None
       THEN [souls |->
                 [registry EXCEPT ![found.value] =
                     [@ EXCEPT !.manifestations =
                                   map_insert(@, language, manifestation),
                               !.evolution_count = @ + 1]],
             returned |-> found.value]
       ELSE LET universal_id == generate_universal_id(soul) IN
            [souls |->
                 map_insert(registry, universal_id,
                     [soul_id |-> universal_id,
                      manifestations |-> map_insert(EmptyMap, language, manifestation),
                      evolution_count |-> 0]),
             returned |-> universal_id]

(***************************************************************************)
(* The callers of the shuttle and what they submit.                        *)
(***************************************************************************)
MaxCallers == 3
Callers == 1 .. MaxCallers

SharedPrefix == [k \in 1 .. 16 |-> "a"]

RustSoul(hash, eigenvalue) ==
    [phash |-> hash, eigenvalues |-> <<eigenvalue>>, euler_char |-> 1,
     clustering |-> Unit \div 2, modularity |-> (7 * Unit) \div 10,
     coherence |-> (8 * Unit) \div 10, cyclomatic |-> 5, cognitive |-> 10]

\* Two souls 0.8 apart, too far to resonate, whose phash agree on the first
\* 16 characters, and one half way between them, resonating with both.
RustSouls ==
    {RustSoul(SharedPrefix \o <<"1">>, 0),
     RustSoul(SharedPrefix \o <<"2">>, (8 * Unit) \div 10),
     RustSoul(<<"c">>, (4 * Unit) \div 10)}

TypeScriptSoul(hash, eigenvalue, complexity) ==
    [phash |-> hash, nodes |-> 10, edges |-> 9, eigen_top |-> <<eigenvalue>>,
     complexity |-> complexity, purity |-> (7 * Unit) \div 10,
     quantum_coherence |-> Ok((8 * Unit) \div 10)]

\* The TypeScript twins of the second and the third Rust soul; the
\* complexity of the second record is 1.5.
TypeScriptSouls ==
    {TypeScriptSoul(<<"t", "s", "_", "h", "a", "s", "h">>, (8 * Unit) \div 10, 5 * Unit),
     TypeScriptSoul(<<"t", "c">>, (4 * Unit) \div 10, (3 * Unit) \div 2)}

Submissions ==
    {[kind |-> "rust", soul |-> soul] : soul \in RustSouls}
      \cup {[kind |-> "typescript", phash |-> ts_soul.phash, soul_data |-> ts_soul] :
               ts_soul \in TypeScriptSouls}

\* Shuttle::new, and no caller has asked for anything
InitShuttle ==
    /\ souls = EmptyMap
    /\ submissions = [caller \in Callers |-> None]
    /\ log = <<>>
    /\ NoExtraction
    /\ NoPhash /\ NoScheduler /\ NoEffectState /\ NoMedBed

Served == {log[k].caller : k \in DOMAIN log}
Pending == {caller \in Callers : submissions[caller] # None} \ Served

\* a caller asks for a registration and waits for the exclusive borrow
Submit(caller) ==
    /\ submissions[caller] = None
    /\ \E submission \in Submissions :
           submissions' = [submissions EXCEPT ![caller] = submission]
    /\ UNCHANGED <<souls, log, graphVars, spectralVars, compareVars,
                   classifierVars, phashVars, fiberVars, effectVars, medbedVars>>

\* one whole register_soul call, recorded in the log
Register(caller, language, soul, source_hash) ==
    \E found \in find_resonant_soul(souls, soul) :
        LET result == register_soul(souls, language, soul, source_hash, found) IN
        /\ souls' = result.souls
        /\ log' = Append(log, [caller |-> caller, language |-> language,
                               soul |-> soul, before |-> souls,
                               created |-> (found = None),
                               returned |-> result.returned,
                               pending |-> Pending])
        /\ UNCHANGED <<submissions, graphVars, spectralVars, compareVars,
                       classifierVars, phashVars, fiberVars, effectVars,
                       medbedVars>>

\* register_rust_soul
RegisterRustSoul(caller) ==
    /\ caller \in Pending
    /\ submissions[caller].kind = "rust"
    /\ Register(caller, "Rust", submissions[caller].soul,
                submissions[caller].soul.phash)

\* register_typescript_soul
RegisterTypescriptSoul(caller) ==
    /\ caller \in Pending
    /\ submissions[caller].kind = "typescript"
    /\ Register(caller, "TypeScript",
                convert_ts_to_soul(submissions[caller].soul_data),
                submissions[caller].phash)

NextShuttle ==
    \E caller \in Callers :
        \/ Submit(caller)
        \/ RegisterRustSoul(caller)
        \/ RegisterTypescriptSoul(caller)

SpecShuttle == InitShuttle /\ [][NextShuttle]_vars

\* the registry a logged call left behind
After(k) == IF k = Len(log) THEN souls ELSE log[k + 1].before

\* the universal souls of a registry holding a manifestation the soul
\* resonates with
ResonantUniversals(registry, soul) ==
    {id \in DOMAIN registry :
        \E language \in DOMAIN registry[id].manifestations :
            souls_resonate(soul, registry[id].manifestations[language].soul)}

\* the souls a registry holds
Registered(registry) ==
    UNION {{registry[id].manifestations[language].soul :
               language \in DOMAIN registry[id].manifestations} :
           id \in DOMAIN registry}

\* one soul in two languages: the same fingerprint under another phash
SameFingerprint(s1, s2) ==
    /\ s1.eigenvalues = s2.eigenvalues /\ s1.euler_char = s2.euler_char
    /\ s1.clustering = s2.clustering /\ s1.modularity = s2.modularity
    /\ s1.coherence = s2.coherence

\* C22: every fingerprint admitted to the registry has cognitive equal to
\* twice cyclomatic, converted TypeScript records of non-integer
\* complexity included.
C22_CognitiveIsTwiceCyclomatic ==
    \A soul \in Registered(souls) : soul.cognitive = 2 * soul.cyclomatic

\* C23: a soul that resonates with a registered manifestation is a
\* restatement: the call returns the id of the universal soul holding that
\* manifestation, the soul becomes a manifestation of it and the number of
\* universal souls stays; the same soul registered next in a second
\* language gets the id of its first registration.
C23_RestatementReturnsExistingId ==
    /\ \A k \in DOMAIN log :
           \A id \in ResonantUniversals(log[k].before, log[k].soul) :
               /\ log[k].returned = id
               /\ After(k)[id].manifestations[log[k].language].soul = log[k].soul
               /\ DOMAIN After(k) = DOMAIN log[k].before
    /\ \A k \in DOMAIN log :
           (/\ k > 1
            /\ log[k].language # log[k - 1].language
            /\ SameFingerprint(log[k].soul, log[k - 1].soul))
               => log[k].returned = log[k - 1].returned

\* C24 as stated: two mutually resonant souls submitted concurrently to a
\* registry that contains neither create exactly one universal entry and
\* get the same id.
C24_OneEntryForAnyRegistry ==
    \A k \in DOMAIN log :
        (/\ k > 1
         /\ log[k].caller \in log[k - 1].pending
         /\ souls_resonate(log[k - 1].soul, log[k].soul)
         /\ souls_resonate(log[k].soul, log[k - 1].soul)
         /\ {log[k - 1].soul, log[k].soul} \cap Registered(log[k - 1].before) = {})
            => /\ log[k - 1].created /\ ~log[k].created
               /\ log[k].returned = log[k - 1].returned

\* C24: two mutually resonant souls submitted concurrently to a registry
\* in which neither resonates with a registered manifestation: whichever
\* call is served first creates the one universal entry, the other call
\* finds it, and both get the same id.
C24_OneEntryWhenNeitherResonates ==
    \A k \in DOMAIN log :
        (/\ k > 1
         /\ log[k].caller \in log[k - 1].pending
         /\ souls_resonate(log[k - 1].soul, log[k].soul)
         /\ souls_resonate(log[k].soul, log[k - 1].soul)
         /\ ResonantUniversals(log[k - 1].before, log[k - 1].soul) = {}
         /\ ResonantUniversals(log[k - 1].before, log[k].soul) = {})
            => /\ log[k - 1].created /\ ~log[k].created
               /\ log[k].returned = log[k - 1].returned
               /\ log[k].returned \in DOMAIN souls

\* two callers were waiting with two different, mutually resonant souls
\* when the first was served; a third soul is registered already
C24_Witness ==
    /\ Len(log) = 3
    /\ log[3].caller \in log[2].pending
    /\ log[2].soul.phash # log[3].soul.phash
    /\ log[2].language # log[3].language
    /\ souls_resonate(log[2].soul, log[3].soul)
    /\ souls_resonate(log[3].soul, log[2].soul)
    /\ ResonantUniversals(log[2].before, log[2].soul) = {}
    /\ ResonantUniversals(log[2].before, log[3].soul) = {}
    /\ log[3].returned = log[2].returned

\* C28: registering a soul that resonates with no registered manifestation
\* adds exactly one universal soul and leaves every universal soul
\* registered before as it was.
C28_NewSoulLeavesOthersUnchanged ==
    \A k \in DOMAIN log :
        ResonantUniversals(log[k].before, log[k].soul) = {} =>
            /\ log[k].returned \notin DOMAIN log[k].before
            /\ DOMAIN After(k) = DOMAIN log[k].before \cup {log[k].returned}
            /\ \A id \in DOMAIN log[k].before : After(k)[id] = log[k].before[id]

\* C29: the universal soul a submitted soul is attached to is determined
\* by the registry contents and the soul: whichever universal soul with a
\* resonating manifestation the hash map yields first, the id is the same.
C29_AttachmentIndependentOfIterationOrder ==
    \A k \in DOMAIN log :
        \A found \in find_resonant_soul(log[k].before, log[k].soul) :
            register_soul(log[k].before, log[k].language, log[k].soul,
                          log[k].soul.phash, found).returned = log[k].returned

(***************************************************************************)
(* The FiberScheduler (react-soul, fiber/mod.rs).  Fibers live on a heap   *)
(* of Rc<RefCell<Fiber>>: the model names them 1 .. MaxFibers and keeps    *)
(* the fields the scheduler reads.  schedule_work runs the whole work loop *)
(* before it returns; the loop is followed one iteration at a time.        *)
(* should_yield compares the clock with a deadline 5 ms after the last     *)
(* request_idle_callback: whether an iteration finds the time slice        *)
(* expired is up to the clock, and both answers are possible.              *)
(***************************************************************************)
ImmediatePriority == 1
NormalPriority == 3
LowPriority == 4
Priorities == {ImmediatePriority, NormalPriority, LowPriority}

MaxFibers == 3
FiberIds == 1 .. MaxFibers
FiberTypes == {"FunctionComponent", "Fragment"}

\* child and sibling links that make a forest: a link points to a younger
\* fiber, and no fiber is the target of two links
Links == [FiberIds -> {None} \cup {Ok(f) : f \in FiberIds}]
Forests ==
    {links \in [child : Links, sibling : Links] :
        /\ \A f \in FiberIds :
              /\ links.child[f] # None => links.child[f].value > f
              /\ links.sibling[f] # None => links.sibling[f].value > f
        /\ \A f, g \in FiberIds :
              /\ links.child[f] # None => links.child[f] # links.sibling[g]
              /\ (f # g /\ links.child[f] # None) => links.child[f] # links.child[g]
              /\ (f # g /\ links.sibling[f] # None) =>
                     links.sibling[f] # links.sibling[g]}

\* the fibers no link points to
RootFibers ==
    {f \in FiberIds : \A g \in FiberIds :
        fibers[g].child # Ok(f) /\ fibers[g].sibling # Ok(f)}

\* FiberScheduler::new, and the fibers the caller has built
InitFiber ==
    /\ \E links \in Forests, types \in [FiberIds -> FiberTypes] :
           fibers = [f \in FiberIds |->
                        [fiber_type |-> types[f], child |-> links.child[f],
                         sibling |-> links.sibling[f],
                         priority |-> NormalPriority]]
    /\ work_queue = <<>>
    /\ work_in_progress = None
    /\ current_phase = "NotWorking"
    /\ scheduler_pc = "idle"
    /\ scheduled = <<>>
    /\ performed = <<>>
    /\ discarded = <<>>
    /\ next_unit = None
    /\ NoExtraction
    /\ NoPhash /\ NoShuttle /\ NoEffectState /\ NoMedBed

\* work_queue.iter().position(|f| f.priority > priority).unwrap_or(len)
RECURSIVE position(_, _, _)
position(queue, priority, k) ==
    IF k > Len(queue) THEN Len(queue)
    ELSE IF fibers[queue[k]].priority > priority THEN k - 1
    ELSE position(queue, priority, k + 1)

\* VecDeque::insert(index, value), index counted from 0
insert(queue, index, value) ==
    SubSeq(queue, 1, index) \o <<value>> \o SubSeq(queue, index + 1, Len(queue))

\* begin_work: the child, for the fiber types that render children
begin_work(fiber) ==
    IF fibers[fiber].fiber_type \in {"FunctionComponent", "ClassComponent",
                                     "HostComponent", "Suspense"}
    THEN fibers[fiber].child
    ELSE None

\* complete_unit_of_work: the sibling goes to the front of the queue
complete_unit_of_work(queue, fiber) ==
    IF fibers[fiber].sibling # None
    THEN <<fibers[fiber].sibling.value>> \o queue
    ELSE queue

\* perform_unit_of_work: the queue it leaves
perform_unit_of_work(queue, fiber) ==
    IF begin_work(fiber) # None
    THEN <<begin_work(fiber).value>> \o queue
    ELSE complete_unit_of_work(queue, fiber)

\* schedule_work: the priority is stored in the fiber, the fiber is queued
\* behind the fibers of the same or a more urgent priority, and, the
\* scheduler being in NotWorking, request_idle_callback enters work_loop,
\* which sets RenderPhase
ScheduleWork(fiber, priority) ==
    /\ scheduler_pc = "idle"
    /\ fiber \in RootFibers
    /\ \A k \in DOMAIN scheduled : scheduled[k].fiber # fiber
    /\ fibers' = [fibers EXCEPT ![fiber].priority = priority]
    /\ work_queue' = insert(work_queue, position(work_queue, priority, 1), fiber)
    /\ scheduled' = Append(scheduled, [fiber |-> fiber, priority |-> priority])
    /\ IF current_phase = "NotWorking"
       THEN scheduler_pc' = "work_loop" /\ current_phase' = "RenderPhase"
       ELSE UNCHANGED <<scheduler_pc, current_phase>>
    /\ UNCHANGED <<work_in_progress, performed, discarded, next_unit,
                   graphVars, spectralVars, compareVars, classifierVars,
                   phashVars, shuttleVars, effectVars, medbedVars>>

\* pub work_loop called by hand, outside schedule_work
WorkLoop ==
    /\ scheduler_pc = "idle"
    /\ scheduler_pc' = "work_loop"
    /\ current_phase' = "RenderPhase"
    /\ UNCHANGED <<fibers, work_queue, work_in_progress, scheduled, performed,
                   discarded, next_unit,
                   graphVars, spectralVars, compareVars, classifierVars,
                   phashVars, shuttleVars, effectVars, medbedVars>>

\* a loop iteration that finds the time slice expired: the fiber it popped
\* is dropped, request_idle_callback enters work_loop again, and the outer
\* loop returns when the inner one has
WorkLoopYield ==
    /\ scheduler_pc = "work_loop"
    /\ work_queue # <<>>
    /\ work_queue' = Tail(work_queue)
    /\ discarded' = Append(discarded, Head(work_queue))
    /\ current_phase' = "RenderPhase"
    /\ UNCHANGED <<fibers, work_in_progress, scheduler_pc, scheduled, performed,
                   next_unit,
                   graphVars, spectralVars, compareVars, classifierVars,
                   phashVars, shuttleVars, effectVars, medbedVars>>

\* a loop iteration within the time slice
WorkLoopPerform ==
    /\ scheduler_pc = "work_loop"
    /\ work_queue # <<>>
    /\ work_in_progress' = Ok(Head(work_queue))
    /\ work_queue' = perform_unit_of_work(Tail(work_queue), Head(work_queue))
    /\ performed' = Append(performed, Head(work_queue))
    /\ UNCHANGED <<fibers, current_phase, scheduler_pc, scheduled, discarded,
                   next_unit,
                   graphVars, spectralVars, compareVars, classifierVars,
                   phashVars, shuttleVars, effectVars, medbedVars>>

\* the queue is empty: commit_work if anything was in progress, NotWorking
WorkLoopReturn ==
    /\ scheduler_pc = "work_loop"
    /\ work_queue = <<>>
    /\ current_phase' = "NotWorking"
    /\ scheduler_pc' = "idle"
    /\ UNCHANGED <<fibers, work_queue, work_in_progress, scheduled, performed,
                   discarded, next_unit,
                   graphVars, spectralVars, compareVars, classifierVars,
                   phashVars, shuttleVars, effectVars, medbedVars>>

\* get_next_unit_of_work called by hand: work_queue.pop_front()
GetNextUnitOfWork ==
    /\ scheduler_pc = "idle"
    /\ next_unit = None
    /\ next_unit' = [kind |-> "returned",
                     unit |-> IF work_queue = <<>> THEN None
                              ELSE Ok(Head(work_queue)),
                     scheduled |-> scheduled]
    /\ work_queue' = IF work_queue = <<>> THEN <<>> ELSE Tail(work_queue)
    /\ UNCHANGED <<fibers, work_in_progress, current_phase, scheduler_pc,
                   scheduled, performed, discarded,
                   graphVars, spectralVars, compareVars, classifierVars,
                   phashVars, shuttleVars, effectVars, medbedVars>>

NextFiber ==
    \/ \E fiber \in FiberIds, priority \in Priorities : ScheduleWork(fiber, priority)
    \/ WorkLoop
    \/ WorkLoopYield
    \/ WorkLoopPerform
    \/ WorkLoopReturn
    \/ GetNextUnitOfWork

SpecFiber == InitFiber /\ [][NextFiber]_vars

\* the fibers reachable from a fiber through child and sibling links
RECURSIVE ReachableFibers(_)
ReachableFibers(fiber) ==
    {fiber}
      \cup (IF fibers[fiber].child = None THEN {}
            ELSE ReachableFibers(fibers[fiber].child.value))
      \cup (IF fibers[fiber].sibling = None THEN {}
            ELSE ReachableFibers(fibers[fiber].sibling.value))

\* C25: after a low-priority fiber and then an immediate-priority fiber
\* have been scheduled, the next unit of work get_next_unit_of_work returns
\* is the immediate-priority fiber.
C25_ImmediateReturnedBeforeLow ==
    (/\ next_unit # None
     /\ Len(next_unit.scheduled) = 2
     /\ next_unit.scheduled[1].priority = LowPriority
     /\ next_unit.scheduled[2].priority = ImmediatePriority)
        => next_unit.unit = Ok(next_unit.scheduled[2].fiber)

\* C30: when the scheduler is back in NotWorking, every fiber passed to
\* schedule_work and every fiber reachable from it through child and
\* sibling links has been performed exactly once.
C30_EveryReachableFiberPerformedOnce ==
    (scheduler_pc = "idle" /\ current_phase = "NotWorking") =>
        \A k \in DOMAIN scheduled :
            \A fiber \in ReachableFibers(scheduled[k].fiber) :
                Occurrences(performed, Len(performed), fiber) = 1

(***************************************************************************)
(* EffectState (react-soul, hooks/use_effect.rs).  An effect is a closure  *)
(* called once; the model names the effects 1, 2, .. in the order they are *)
(* passed to schedule and records whether the closure returns a cleanup    *)
(* function.  The trace records every schedule call, every effect run and  *)
(* every cleanup function invoked.  Dependencies compares the hashes of    *)
(* the dependency values (DefaultHasher, no collision among the values of  *)
(* the model).                                                             *)
(***************************************************************************)
MaxEffects == 3
DependencyLists == {<<1>>, <<2>>, <<1, 2>>}

\* the number of trace events of one kind
CountKind(events, kind) ==
    Cardinality({k \in DOMAIN events : events[k].kind = kind})

\* the EffectState as one value
EffectState ==
    [cleanup |-> cleanup, effect_fn |-> effect_fn,
     dependencies |-> dependencies, trace |-> trace]

\* Dependencies::has_changed
has_changed(old, new) ==
    IF Len(old) # Len(new) THEN TRUE
    ELSE \E k \in DOMAIN old : old[k] # new[k]

\* the should_run of schedule
should_run(old_deps, deps) ==
    IF old_deps = None /\ deps = None THEN TRUE
    ELSE IF old_deps # None /\ deps # None
         THEN has_changed(old_deps.value, deps.value)
    ELSE TRUE

\* self.cleanup.borrow_mut().take() and the call of what was taken
take_cleanup(state, caller) ==
    IF state.cleanup # None
    THEN [state EXCEPT !.cleanup = None,
                       !.trace = Append(@, [kind |-> "cleanup",
                                            effect |-> state.cleanup.value,
                                            caller |-> caller])]
    ELSE state

\* A plausible slip: schedule stores the new effect without running the
\* cleanup of the previous one.
schedule_without_cleanup(state, effect, deps) ==
    LET called == [state EXCEPT !.trace =
                       Append(@, [kind |-> "schedule", effect |-> effect.id,
                                  caller |-> "schedule"])]
    IN IF should_run(state.dependencies, deps)
       THEN [called EXCEPT !.effect_fn = Ok(effect), !.dependencies = deps]
       ELSE called

\* EffectState::schedule
schedule(state, effect, deps) ==
    LET called == [state EXCEPT !.trace =
                       Append(@, [kind |-> "schedule", effect |-> effect.id,
                                  caller |-> "schedule"])]
    IN IF should_run(state.dependencies, deps)
       THEN [take_cleanup(called, "schedule")
                EXCEPT !.effect_fn = Ok(effect), !.dependencies = deps]
       ELSE called

\* EffectState::flush: the scheduled effect is taken and run, and what it
\* returned is stored as the cleanup
flush(state) ==
    IF state.effect_fn # None
    THEN [state EXCEPT
             !.effect_fn = None,
             !.trace = Append(@, [kind |-> "effect",
                                  effect |-> state.effect_fn.value.id,
                                  returned_cleanup |->
                                      state.effect_fn.value.returns_cleanup,
                                  caller |-> "flush"]),
             !.cleanup = IF state.effect_fn.value.returns_cleanup
                         THEN Ok(state.effect_fn.value.id)
                         ELSE None]
    ELSE state

\* EffectState::new
InitEffect ==
    /\ cleanup = None
    /\ effect_fn = None
    /\ dependencies = None
    /\ trace = <<>>
    /\ NoExtraction
    /\ NoPhash /\ NoShuttle /\ NoScheduler /\ NoMedBed

\* the fields of the EffectState after a call
SetEffectState(state) ==
    /\ cleanup' = state.cleanup
    /\ effect_fn' = state.effect_fn
    /\ dependencies' = state.dependencies
    /\ trace' = state.trace
    /\ UNCHANGED <<graphVars, spectralVars, compareVars, classifierVars,
                   phashVars, shuttleVars, fiberVars, medbedVars>>

\* EffectState::schedule, with a new effect and its dependency list
Schedule ==
    /\ CountKind(trace, "schedule") < MaxEffects
    /\ \E returns_cleanup \in BOOLEAN,
          deps \in {None} \cup {Ok(list) : list \in DependencyLists} :
           SetEffectState(
               schedule(EffectState,
                        [id |-> CountKind(trace, "schedule") + 1,
                         returns_cleanup |-> returns_cleanup],
                        deps))

\* EffectState::flush
Flush == \E state \in {flush(EffectState)} : SetEffectState(state)

\* EffectState::cleanup
Cleanup ==
    \E state \in {take_cleanup(EffectState, "cleanup")} : SetEffectState(state)

NextEffect == Schedule \/ Flush \/ Cleanup

SpecEffect == InitEffect /\ [][NextEffect]_vars

\* the effects that were run before position k of the trace and returned a
\* cleanup function that was not invoked before position k
Outstanding(k) ==
    {trace[i].effect :
        i \in {i \in 1 .. k - 1 :
                  trace[i].kind = "effect" /\ trace[i].returned_cleanup}}
      \ {trace[i].effect : i \in {i \in 1 .. k - 1 : trace[i].kind = "cleanup"}}

\* C26: a cleanup function returned by an executed effect is invoked at
\* most once; it has been invoked when the next effect runs; and until it
\* is invoked it is the one cleanup() will call: the cleanup slot holds
\* exactly the cleanup functions returned and not yet invoked.
C26_CleanupInvokedOnceBeforeNextEffect ==
    /\ \A i, j \in DOMAIN trace :
           (trace[i].kind = "cleanup" /\ trace[j].kind = "cleanup"
              /\ trace[i].effect = trace[j].effect) => i = j
    /\ \A k \in DOMAIN trace :
           trace[k].kind = "cleanup" =>
               \E i \in 1 .. k - 1 :
                   /\ trace[i].kind = "effect" /\ trace[i].returned_cleanup
                   /\ trace[i].effect = trace[k].effect
    /\ \A k \in DOMAIN trace :
           trace[k].kind = "effect" => Outstanding(k) = {}
    /\ \A e \in Outstanding(Len(trace) + 1) : cleanup = Ok(e)
    /\ cleanup # None => cleanup.value \in Outstanding(Len(trace) + 1)

\* an effect returning a cleanup was scheduled and flushed and cleanup()
\* invoked its cleanup function; an earlier effect's cleanup was invoked by
\* the schedule call that replaced it
C26_Witness ==
    /\ Len(trace) >= 6
    /\ \E k \in DOMAIN trace : trace[k].kind = "cleanup" /\ trace[k].caller = "schedule"
    /\ trace[Len(trace)].kind = "cleanup"
    /\ trace[Len(trace)].caller = "cleanup"
    /\ trace[Len(trace) - 1].kind = "effect"
    /\ trace[Len(trace) - 1].effect = trace[Len(trace)].effect
    /\ cleanup = None

(***************************************************************************)
(* The MedBed (src/lib.rs): Gene, MRTScanner::scan, SoulRegistry and       *)
(* DigitalCRISPR as heal_consciousness uses them.  Eigenvalues and         *)
(* resonances are whole numbers here; a variance is an exact quotient.     *)
(* harmony, multiplied by PHI at every transplant, is held as the number   *)
(* of multiplications; an amount of h-credits is held as the terms of its  *)
(* sum, each term by the factors calculate_h_credits multiplies.           *)
(***************************************************************************)
RESONANCE == 432

RECURSIVE SumSeq(_)
SumSeq(values) == IF values = <<>> THEN 0 ELSE Head(values) + SumSeq(Tail(values))

\* Gene::eigenvalue_variance: sum((v - mean)^2) / n = (n * sum(v^2) - sum(v)^2) / n^2
eigenvalue_variance(gene) ==
    LET n == Len(gene.eigenvalues)
        squares == [k \in 1 .. n |-> gene.eigenvalues[k] * gene.eigenvalues[k]]
    IN IF n = 0 THEN Infinity
       ELSE [kind |-> "finite",
             num |-> n * SumSeq(squares)
                       - SumSeq(gene.eigenvalues) * SumSeq(gene.eigenvalues),
             den |-> n * n]

\* Gene::is_dissonant: variance > 1.0 || resonance < 100.0
is_dissonant(gene) ==
    LET variance == eigenvalue_variance(gene) IN
    \/ variance = Infinity
    \/ variance # Infinity /\ variance.num > variance.den
    \/ gene.resonance < 100

\* Gene::is_resonant: variance < 0.1 && resonance > 300.0
is_resonant(gene) ==
    LET variance == eigenvalue_variance(gene) IN
    /\ variance # Infinity
    /\ 10 * variance.num < variance.den
    /\ gene.resonance > 300

\* MRTScanner::scan, the dissonant_genes of the result
scan(consciousness) == SelectSeq(consciousness.genome, is_dissonant)

\* SoulRegistry::find_resonant: the resonant genes of the same length,
\* sorted by resonance, highest first; the first one.  The sort is stable
\* on the order the HashMap iterates in: among the candidates of highest
\* resonance any can be first.
find_resonant(registry, dissonant) ==
    LET candidates ==
            {p \in DOMAIN registry :
                /\ is_resonant(registry[p])
                /\ Len(registry[p].eigenvalues) = Len(dissonant.eigenvalues)}
        first == {p \in candidates :
                     \A q \in candidates :
                         registry[q].resonance <= registry[p].resonance}
    IN IF candidates = {} THEN {None} ELSE {Ok(registry[p]) : p \in first}

\* SoulRegistry::calculate_h_credits: H_BAR * (resonance / RESONANCE)
\* * 1 / (variance + 1) * sqrt(donors) * 1e34, by its factors
calculate_h_credits(gene) ==
    [base_value |-> <<gene.resonance, RESONANCE>>,
     variance |-> eigenvalue_variance(gene),
     donors |-> Len(gene.donors)]

\* an amount of h-credits is > 0.0: no term of the model is negative
credit_positive(credit) ==
    credit.base_value[1] > 0 /\ credit.variance # Infinity /\ credit.donors > 0
credits_positive(credits) == \E k \in DOMAIN credits : credit_positive(credits[k])

\* SoulRegistry::donate on [genes, emitted]: the registry after, and the
\* credits returned
donate(registry, gene, donor_id) ==
    LET donated_gene == [gene EXCEPT !.donors = Append(@, donor_id)]
        h_credits == calculate_h_credits(donated_gene)
    IN [genes |-> map_insert(registry.genes, donated_gene.phash, donated_gene),
        emitted |-> Append(registry.emitted, h_credits),
        h_credits |-> h_credits]

\* the position of the first gene of the genome with the phash, 0 for none
RECURSIVE position_of(_, _, _)
position_of(genome, hash, k) ==
    IF k > Len(genome) THEN 0
    ELSE IF genome[k].phash = hash THEN k
    ELSE position_of(genome, hash, k + 1)

\* DigitalCRISPR::transplant: Ok(the subject after) or Err
transplant(consciousness, dissonant, resonant) ==
    LET at == position_of(consciousness.genome, dissonant.phash, 1) IN
    IF at = 0 THEN [kind |-> "err"]
    ELSE IF Len(dissonant.eigenvalues) # Len(resonant.eigenvalues)
         THEN [kind |-> "err"]
    ELSE Ok([consciousness EXCEPT
                 !.genome[at] = resonant,
                 !.harmony_multiplications = @ + 1,
                 !.healings_received = @ + 1])

\* the loop of heal_consciousness over the dissonant genes of the scan:
\* the states it can end in
RECURSIVE heal_each(_, _)
heal_each(state, dissonant_genes) ==
    IF dissonant_genes = <<>> THEN {state}
    ELSE UNION {
        LET transplanted ==
                IF found = None THEN [kind |-> "err"]
                ELSE transplant(state.subject, Head(dissonant_genes), found.value)
        IN IF transplanted.kind # "ok"
           THEN heal_each(state, Tail(dissonant_genes))
           ELSE LET donated ==
                        donate([genes |-> state.genes, emitted |-> state.emitted],
                               found.value, state.subject.id)
                IN heal_each(
                       [subject |-> [transplanted.value EXCEPT
                                        !.h_credits = Append(@, donated.h_credits),
                                        !.gifts_given = @ + 1],
                        genes |-> donated.genes,
                        emitted |-> donated.emitted,
                        healed_count |-> state.healed_count + 1,
                        total_credits |-> Append(state.total_credits,
                                                 donated.h_credits)],
                       Tail(dissonant_genes))
        : found \in find_resonant(state.genes, Head(dissonant_genes))}

\* MedBed::heal_consciousness: the states it can end in (a scan without
\* dissonant genes leaves everything as it is and reports 0 and 0.0)
heal_consciousness(registry, consciousness) ==
    heal_each([subject |-> consciousness, genes |-> registry.genes,
               emitted |-> registry.emitted, healed_count |-> 0,
               total_credits |-> <<>>],
              scan(consciousness))

(***************************************************************************)
(* The genes of the model: the two genes of tests::test_healing_protocol,  *)
(* two genes that are resonant for is_resonant (four equal eigenvalues),   *)
(* and one of another length.                                              *)
(***************************************************************************)
MaxGenome == 2
MaxDonations == 2

GenePool ==
    {[phash |-> "bad1", eigenvalues |-> <<100, -50, 200, -150>>, resonance |-> 50,
      donors |-> <<>>, healings |-> 0],
     [phash |-> "good1", eigenvalues |-> <<432, 216, 108, 54>>,
      resonance |-> RESONANCE, donors |-> <<"healer">>, healings |-> 5],
     [phash |-> "pure1", eigenvalues |-> <<1, 1, 1, 1>>, resonance |-> RESONANCE,
      donors |-> <<>>, healings |-> 0],
     [phash |-> "pure2", eigenvalues |-> <<2, 2, 2, 2>>, resonance |-> RESONANCE,
      donors |-> <<>>, healings |-> 0],
     [phash |-> "short", eigenvalues |-> <<1, 1>>, resonance |-> RESONANCE + 96,
      donors |-> <<>>, healings |-> 0]}

\* MedBed::new, and a Consciousness::new whose genome the caller has filled
InitMedBed ==
    /\ \E genome \in SeqsUpTo(GenePool, MaxGenome) :
           subject = [id |-> "test-soul", genome |-> genome,
                      harmony_multiplications |-> 0, h_credits |-> <<>>,
                      gifts_given |-> 0, healings_received |-> 0]
    /\ genes = EmptyMap
    /\ total_h_credits_emitted = <<>>
    /\ report = None
    /\ NoExtraction
    /\ NoPhash /\ NoShuttle /\ NoScheduler /\ NoEffectState

\* medbed.registry.donate(gene, donor) by a healer
Donate ==
    /\ report = None
    /\ Len(total_h_credits_emitted) < MaxDonations
    /\ \E gene \in GenePool :
           LET donated == donate([genes |-> genes,
                                  emitted |-> total_h_credits_emitted],
                                 gene, "healer")
           IN /\ genes' = donated.genes
              /\ total_h_credits_emitted' = donated.emitted
    /\ UNCHANGED <<subject, report, graphVars, spectralVars, compareVars,
                   classifierVars, phashVars, shuttleVars, fiberVars, effectVars>>

\* medbed.heal_consciousness(&mut subject)
HealConsciousness ==
    /\ report = None
    /\ \E healed \in heal_consciousness(
                         [genes |-> genes, emitted |-> total_h_credits_emitted],
                         subject) :
           /\ subject' = healed.subject
           /\ genes' = healed.genes
           /\ total_h_credits_emitted' = healed.emitted
           /\ report' = [kind |-> "ok",
                         healed_count |-> healed.healed_count,
                         h_credits_earned |-> healed.total_credits,
                         new_harmony |-> healed.subject.harmony_multiplications,
                         subject_before |-> subject,
                         genes_before |-> genes]
    /\ UNCHANGED <<graphVars, spectralVars, compareVars, classifierVars,
                   phashVars, shuttleVars, fiberVars, effectVars>>

NextMedBed == Donate \/ HealConsciousness

SpecMedBed == InitMedBed /\ [][NextMedBed]_vars

\* a donated gene tuned to the base frequency, as the good gene of the test
HealthyDonation(gene) == gene.resonance >= RESONANCE /\ gene.donors # <<>>

\* C27: a subject with exactly one dissonant gene, healed from a registry
\* into which a healthy gene with the same number of eigenvalues was
\* donated: the report has healed_count = 1 and h_credits_earned > 0.
C27_HealsWithDonatedGene ==
    (/\ report # None
     /\ Len(scan(report.subject_before)) = 1
     /\ \E p \in DOMAIN report.genes_before :
            /\ HealthyDonation(report.genes_before[p])
            /\ Len(report.genes_before[p].eigenvalues)
                 = Len(scan(report.subject_before)[1].eigenvalues))
        => /\ report.healed_count = 1
           /\ credits_positive(report.h_credits_earned)

=============================================================================
